---- MODULE Spec2Model ----
(***************************************************************************)
(* Orbital camera navigation of the 3D scene: CameraController.js.         *)
(*                                                                         *)
(* Numbers are fixed point: lengths in hundredths of a scene unit, angles  *)
(* in 1e-4 rad, sines/cosines, easing and progress in 1e-4, time in ms.    *)
(***************************************************************************)
EXTENDS Integers, Sequences, FiniteSets, TLC

(* ------------------------------ bounds --------------------------------- *)
MaxEvents == 3
MaxListeners == 2
MaxTabEvents == 10
MaxNavEvents == 4
MaxLiveEvents == 3
MaxOrbitEvents == 4
MaxThrowEvents == 3
MaxAppEvents == 3
MaxCursorEvents == 3
MaxDisposeEvents == 4
MaxA11yEvents == 3
MaxLoaderEvents == 4
MaxQueue == 3
MaxLoaded == 6
EaseSamples == 80
MaxHoverEvents == 3
MaxDeliveryEvents == 4

(* --------------------------- fixed-point units ------------------------- *)
LenScale == 100
TrigScale == 10000
Pi == 31416
HalfPi == 15708
TwoPi == 62832

(* ------------------- options (constructor defaults) -------------------- *)
DampingPercent == 5
PixelRotate == 50
KeyRotate == 500
ZoomAmount == 200
MinDistance == 2000
MaxDistance == 10000
MinPolarAngle == 3142
MaxPolarAngle == 28274
TransitionMs == 2000
ReducedMs == 100
ViewDistance == 3000
HoverDebounce == 16

NodeCount == 5
nodePositions ==
  << [position |-> <<0, 0, 5000>>,      target |-> <<0, 0, 0>>,         name |-> "Hub"],
     [position |-> <<3000, 500, 2500>>, target |-> <<2500, 0, 1000>>,   name |-> "About"],
     [position |-> <<-3000, 1000, 2000>>, target |-> <<-2500, 500, 500>>, name |-> "Work"],
     [position |-> <<1500, -1000, 3500>>, target |-> <<1000, -500, 2000>>, name |-> "Services"],
     [position |-> <<-2000, 0, 3000>>,  target |-> <<-1500, 0, 1500>>,  name |-> "Contact"] >>

CameraStart == <<0, 0, 5000>>
Origin == <<0, 0, 0>>

(* ------------------------------ arithmetic ----------------------------- *)
Abs(a) == IF a < 0 THEN -a ELSE a
Min(a, b) == IF a < b THEN a ELSE b
Max(a, b) == IF a > b THEN a ELSE b
RDiv(a, b) == IF a >= 0 THEN (2 * a + b) \div (2 * b) ELSE -((2 * (-a) + b) \div (2 * b))

VSub(a, b) == << a[1] - b[1], a[2] - b[2], a[3] - b[3] >>
VAdd(a, b) == << a[1] + b[1], a[2] + b[2], a[3] + b[3] >>

CosQ(t) ==
  LET XX == RDiv(t * t, TrigScale)
      T1 == RDiv(XX, 2)
      T2 == RDiv(T1 * XX, TrigScale * 12)
      T3 == RDiv(T2 * XX, TrigScale * 30)
      T4 == RDiv(T3 * XX, TrigScale * 56)
  IN  TrigScale - T1 + T2 - T3 + T4

Cos(a) ==
  LET m == a % TwoPi
      t == IF m > Pi THEN TwoPi - m ELSE m
  IN  IF t > HalfPi THEN -CosQ(Pi - t) ELSE CosQ(t)

Sin(a) == Cos(a - HalfPi)

RECURSIVE ACosSearch(_, _, _)
ACosSearch(c, lo, hi) ==
  IF lo >= hi THEN lo
  ELSE LET mid == (lo + hi) \div 2
       IN  IF Cos(mid) <= c THEN ACosSearch(c, lo, mid) ELSE ACosSearch(c, mid + 1, hi)

ACos(c) == ACosSearch(c, 0, Pi)

RECURSIVE SqrtSearch(_, _, _)
SqrtSearch(n, lo, hi) ==
  IF lo >= hi THEN lo
  ELSE LET mid == (lo + hi + 1) \div 2
       IN  IF mid * mid <= n THEN SqrtSearch(n, mid, hi) ELSE SqrtSearch(n, lo, mid - 1)

Sqrt(n) == LET f == SqrtSearch(n, 0, 46340) IN IF n - f * f > f THEN f + 1 ELSE f

Atan2(x, z) ==
  LET rho == Sqrt(x * x + z * z)
      a == IF rho = 0 THEN 0
           ELSE IF Abs(z) >= Abs(x)
                THEN LET b == HalfPi - ACos(RDiv(Abs(x) * TrigScale, rho))
                     IN  IF z > 0 THEN b ELSE Pi - b
                ELSE ACos(RDiv(z * TrigScale, rho))
  IN  IF x >= 0 THEN a ELSE -a

VLength(v) == Sqrt(v[1] * v[1] + v[2] * v[2] + v[3] * v[3])

(* THREE.Spherical.setFromVector3 *)
SetFromVector3(v) ==
  LET r == VLength(v)
  IN  IF r = 0 THEN [radius |-> 0, phi |-> 0, theta |-> 0]
      ELSE [radius |-> r,
            phi |-> Atan2(Sqrt(v[1] * v[1] + v[3] * v[3]), v[2]),
            theta |-> Atan2(v[1], v[3])]

(* THREE.Vector3.setFromSpherical *)
SetFromSpherical(s) ==
  LET sinPhiRadius == RDiv(Sin(s.phi) * s.radius, TrigScale)
  IN  << RDiv(sinPhiRadius * Sin(s.theta), TrigScale),
         RDiv(Cos(s.phi) * s.radius, TrigScale),
         RDiv(sinPhiRadius * Cos(s.theta), TrigScale) >>

(* THREE.Vector3.lerpVectors, alpha in 1e-4 *)
LerpVectors(a, b, alpha) ==
  << a[1] + RDiv((b[1] - a[1]) * alpha, TrigScale),
     a[2] + RDiv((b[2] - a[2]) * alpha, TrigScale),
     a[3] + RDiv((b[3] - a[3]) * alpha, TrigScale) >>

(* THREE.Vector3.normalize then multiplyScalar(len): a zero vector stays zero *)
ScaledDirection(v, len) ==
  LET l == VLength(v)
  IN  IF l = 0 THEN Origin
      ELSE << RDiv(v[1] * len, l), RDiv(v[2] * len, l), RDiv(v[3] * len, l) >>

(* ------------------------------- inputs -------------------------------- *)
PointerDownEvents == { <<0, <<0, 0>> >>, <<0, <<300, 6000>> >>, <<2, <<0, 0>> >> }
PointerPositions == { <<0, 0>>, <<300, 6000>> }
WheelDeltas == {-1500, 100, 1500}
TouchEvents == { <<1, 100>>, <<2, 100>>, <<2, 200>> }
DigitKeys == {"1", "2", "3", "4", "5"}
Keys == {"1", "2", "6", "ArrowLeft", "ArrowRight", "ArrowUp", "ArrowDown",
         "+", "-", "Home", "Tab"}
KeyEvents == (Keys \X {FALSE}) \cup { <<"Tab", TRUE>> }
NodeIndexes == {-1, 0, 1, 5}
FrameGaps == {50, 1000, 2000}
NoLookAt == << >>
PositionRequests == { << <<1000, 0, 0>>, NoLookAt >>, << <<0, 1000, 2000>>, <<1000, 0, 0>> >> }
Listeners == {1, 2}

(* ------------------------------- state --------------------------------- *)
VARIABLES
  listening,            \* init() has finished: the DOM listeners are attached
  gsap,                 \* the external tweening engine was imported
  options,              \* [enableDamping, reducedMotion]
  enabled,
  isTransitioning,
  currentNodeIndex,
  spherical,            \* [radius, phi, theta]
  sphericalDelta,       \* [phi, theta]
  target,               \* look-at target of the orbit
  camera,               \* [position, lookAt]
  pointerState,         \* [isDown, currentX, currentY]
  touchState,           \* [initialDistance, currentDistance]
  cursor,               \* domElement.style.cursor
  onNavigateCallbacks,  \* sequence of listener ids
  anim,                 \* the transition in flight
  log,                  \* what the latest navigate call did, in program order
  last,                 \* the handler that ran last: [op, arg]
  nEvents,
  budget,               \* how many handler runs a behaviour explores
  tabPresses,           \* Tab minus Shift+Tab presses made while idle and enabled
  \* InteractionManager
  selectables,          \* set of objects handed to the raycaster
  hoveredObject,
  selectedObject,
  isEnabled,
  callbacks,            \* channel -> sequence of listener ids
  hoverDebounceTimer,   \* the stored timeout handle, 0 for null
  timers,               \* the timeouts that are still pending: [id, due] (ms left)
  normalizedMouse,      \* the screen position the next raycast uses
  lastMove,             \* the latest pointer move that was taken: [position, age (ms),
                        \* burst: the moves since no timeout was pending]
  emitted,              \* triggerCallbacks calls of the latest handler: [ev, entity]
  hoverLog,             \* every hover / unhover emitted so far, in order
  \* the application around the two controllers
  uiCurrentNodeIndex,   \* UIController.currentNodeIndex: the active menu item
  contentSelected,      \* index of ContentNodes.selectedNode, -1 for null
  disposed,             \* the components whose dispose() has run
  currentFocusIndex,    \* AccessibilityManager
  isKeyboardNavActive,
  a11yEvent,            \* the keydown it handled last: [key, shiftKey, target]
  a11yCalls,            \* the callbacks that keydown made: << name, index >>
  loadQueue,            \* ContentLoader: the queued items, each [type, loaded]
  totalItems,
  loadedItems,
  progress,             \* in hundredths of a percent
  isLoading,
  loops,                \* the start() calls suspended at an await: [attached, pos, len]
  reported,             \* the callbacks of the latest step: << name, progress >>
  delivered             \* listener invocations of the latest handler: [ev, cb, entity]

orbitVars == << spherical, sphericalDelta >>
poseVars == << target, camera >>
inputVars == << pointerState, touchState, cursor >>
navVars == << isTransitioning, currentNodeIndex, anim, log >>
confVars == << listening, gsap, options, enabled, onNavigateCallbacks >>
imVars == << selectables, hoveredObject, selectedObject, isEnabled, callbacks,
            hoverDebounceTimer, timers, normalizedMouse, lastMove, emitted, delivered,
            hoverLog >>
uiVars == << uiCurrentNodeIndex, contentSelected >>
a11yVars == << currentFocusIndex, isKeyboardNavActive, a11yEvent, a11yCalls >>
loaderVars == << loadQueue, totalItems, loadedItems, progress, isLoading, loops, reported >>
appVars == << uiVars, disposed, a11yVars, loaderVars >>
vars == << listening, gsap, options, enabled, isTransitioning, currentNodeIndex,
           spherical, sphericalDelta, target, camera, pointerState, touchState,
           cursor, onNavigateCallbacks, anim, log, last, nEvents, budget, tabPresses, imVars,
           appVars >>

NoAnim == [kind |-> "none", startPos |-> Origin, startTarget |-> Origin,
           endPos |-> Origin, endTarget |-> Origin, elapsed |-> 0, durationMs |-> 0]

LogEntry(ev, cb, idx, name, moved) ==
  [ev |-> ev, cb |-> cb, idx |-> idx, name |-> name, moved |-> moved]

NoObject == "null"
NoPosition == "none"
Channels == {"hover", "unhover", "click", "select"}

(* UIController and ContentNodes constructors *)
AppConstructed ==
  /\ uiCurrentNodeIndex = 0
  /\ contentSelected = -1
  /\ disposed = {}
  /\ currentFocusIndex = 0
  /\ isKeyboardNavActive = FALSE
  /\ a11yEvent = [key |-> "", shiftKey |-> FALSE, target |-> ""]
  /\ a11yCalls = << >>
  /\ loadQueue = << >>
  /\ totalItems = 0
  /\ loadedItems = 0
  /\ progress = 0
  /\ isLoading = FALSE
  /\ loops = << >>
  /\ reported = << >>

(* InteractionManager constructor; init() attaches its DOM listeners synchronously *)
InteractionInit ==
  /\ selectables = {}
  /\ hoveredObject = NoObject
  /\ selectedObject = NoObject
  /\ isEnabled = TRUE
  /\ callbacks = [c \in Channels |-> << >>]
  /\ hoverDebounceTimer = 0
  /\ timers = {}
  /\ normalizedMouse = NoPosition
  /\ lastMove = [position |-> NoPosition, age |-> HoverDebounce, burst |-> << >>]
  /\ emitted = << >>
  /\ delivered = << >>
  /\ hoverLog = << >>

(* CameraController constructor, up to the first await of init() *)
ControllerInit(dampings, reducedMotions) ==
  /\ listening = FALSE
  /\ gsap = FALSE
  /\ options \in [enableDamping : dampings, reducedMotion : reducedMotions]
  /\ enabled = TRUE
  /\ isTransitioning = FALSE
  /\ currentNodeIndex = 0
  /\ spherical = [radius |-> LenScale, phi |-> 0, theta |-> 0]
  /\ sphericalDelta = [phi |-> 0, theta |-> 0]
  /\ target = Origin
  /\ camera = [position |-> CameraStart, lookAt |-> Origin]
  /\ pointerState = [isDown |-> FALSE, currentX |-> 0, currentY |-> 0]
  /\ touchState = [initialDistance |-> 0, currentDistance |-> 0]
  /\ cursor = ""
  /\ onNavigateCallbacks = << >>
  /\ anim = NoAnim
  /\ log = << >>
  /\ last = [op |-> "constructor", arg |-> ""]
  /\ nEvents = 0

Init ==
  /\ ControllerInit(BOOLEAN, {FALSE})
  /\ InteractionInit
  /\ budget = MaxEvents
  /\ tabPresses = 0
  /\ AppConstructed

Count(op, arg) ==
  /\ nEvents < budget
  /\ nEvents' = nEvents + 1
  /\ last' = [op |-> op, arg |-> arg]
  /\ UNCHANGED budget

(* a CameraController handler: the interaction manager is not touched *)
Step(op, arg) ==
  /\ Count(op, arg)
  /\ UNCHANGED << imVars, tabPresses, appVars >>

(* variant: the offset is taken from the world origin, not from the orbit target *)
UpdateSphericalIgnoringTarget(position, tgt) == SetFromVector3(position)

UpdateSphericalFromCamera(position, tgt) == SetFromVector3(VSub(position, tgt))

(* variant: the zoom is applied without the clamp *)
ClampDistanceMissing(r) == r

ClampDistance(r) == Max(MinDistance, Min(MaxDistance, r))

(* init(): after the dynamic import has settled *)
InitComplete(available) ==
  /\ ~listening
  /\ last' = [op |-> "init", arg |-> ""]
  /\ UNCHANGED << nEvents, budget, tabPresses, imVars, appVars >>
  /\ gsap' = available
  /\ spherical' = UpdateSphericalFromCamera(camera.position, target)
  /\ listening' = TRUE
  /\ UNCHANGED << options, enabled, onNavigateCallbacks, sphericalDelta, poseVars,
                  inputVars, navVars >>

OnPointerDownAnyButton(button, pos) ==
  /\ listening
  /\ Step("onPointerDown", ToString(button))
  /\ IF ~enabled \/ isTransitioning
     THEN UNCHANGED << pointerState, cursor >>
     ELSE /\ pointerState' = [isDown |-> TRUE, currentX |-> pos[1], currentY |-> pos[2]]
          /\ cursor' = "grabbing"
  /\ UNCHANGED << confVars, orbitVars, poseVars, touchState, navVars >>

OnPointerDown(button, pos) ==
  /\ listening
  /\ Step("onPointerDown", ToString(button))
  /\ IF ~enabled \/ isTransitioning \/ button # 0
     THEN UNCHANGED << pointerState, cursor >>
     ELSE /\ pointerState' = [isDown |-> TRUE, currentX |-> pos[1], currentY |-> pos[2]]
          /\ cursor' = "grabbing"
  /\ UNCHANGED << confVars, orbitVars, poseVars, touchState, navVars >>

OnPointerMove(pos) ==
  /\ listening
  /\ Step("onPointerMove", "")
  /\ IF ~enabled \/ ~pointerState.isDown
     THEN UNCHANGED << pointerState, sphericalDelta >>
     ELSE LET deltaX == pos[1] - pointerState.currentX
              deltaY == pos[2] - pointerState.currentY
          IN  /\ pointerState' = [pointerState EXCEPT !.currentX = pos[1], !.currentY = pos[2]]
              /\ sphericalDelta' = [theta |-> sphericalDelta.theta - deltaX * PixelRotate,
                                    phi |-> sphericalDelta.phi - deltaY * PixelRotate]
  /\ UNCHANGED << confVars, spherical, poseVars, touchState, cursor, navVars >>

OnPointerUp ==
  /\ listening
  /\ Step("onPointerUp", "")
  /\ pointerState' = [pointerState EXCEPT !.isDown = FALSE]
  /\ cursor' = "grab"
  /\ UNCHANGED << confVars, orbitVars, poseVars, touchState, navVars >>

OnWheel(deltaY) ==
  /\ listening
  /\ Step("onWheel", "")
  /\ IF ~enabled \/ isTransitioning
     THEN UNCHANGED spherical
     ELSE spherical' = [spherical EXCEPT
            !.radius = ClampDistance(RDiv(spherical.radius * (1000 + deltaY), 1000))]
  /\ UNCHANGED << confVars, sphericalDelta, poseVars, inputVars, navVars >>

OnTouchStart(touches, distance) ==
  /\ listening
  /\ Step("onTouchStart", "")
  /\ IF touches = 2
     THEN touchState' = [touchState EXCEPT !.initialDistance = distance]
     ELSE UNCHANGED touchState
  /\ UNCHANGED << confVars, orbitVars, poseVars, pointerState, cursor, navVars >>

OnTouchMove(touches, distance) ==
  /\ listening
  /\ Step("onTouchMove", "")
  /\ IF ~enabled \/ isTransitioning \/ touches # 2
     THEN UNCHANGED << touchState, spherical >>
     ELSE /\ spherical' = [spherical EXCEPT
               !.radius = ClampDistance(RDiv(spherical.radius * touchState.initialDistance,
                                             distance))]
          /\ touchState' = [initialDistance |-> distance, currentDistance |-> distance]
  /\ UNCHANGED << confVars, sphericalDelta, poseVars, pointerState, cursor, navVars >>

(* ------------------------------ navigation ----------------------------- *)
Duration == IF options.reducedMotion THEN ReducedMs ELSE TransitionMs

Progress(elapsed, durationMs) == Min(RDiv(elapsed * TrigScale, durationMs), TrigScale)

(* variant: the second half is not divided by 2 *)
EaseInOutUnhalved(p) ==
  IF 2 * p < TrigScale
  THEN RDiv(2 * p * p, TrigScale)
  ELSE TrigScale - RDiv((2 * TrigScale - 2 * p) * (2 * TrigScale - 2 * p), TrigScale)

(* fallbackTransition: p < 0.5 ? 2p^2 : 1 - (-2p + 2)^2 / 2 *)
EaseInOut(p) ==
  IF 2 * p < TrigScale
  THEN RDiv(2 * p * p, TrigScale)
  ELSE TrigScale - RDiv((2 * TrigScale - 2 * p) * (2 * TrigScale - 2 * p), 2 * TrigScale)

(* the engine's 'power2.inOut': p < 0.5 ? 4p^3 : 1 - 4(1 - p)^3 *)
Power2InOut(p) ==
  LET q == TrigScale - p
  IN  IF 2 * p < TrigScale
      THEN RDiv(4 * RDiv(p * p, TrigScale) * p, TrigScale)
      ELSE TrigScale - RDiv(4 * RDiv(q * q, TrigScale) * q, TrigScale)

(* variant: with reduced motion the listeners are not told *)
NotificationsOffWhenReduced(nodeIndex, name) ==
  IF options.reducedMotion THEN << >>
  ELSE [k \in 1..Len(onNavigateCallbacks) |->
          LogEntry("notify", onNavigateCallbacks[k], nodeIndex, name, FALSE)]

Notifications(nodeIndex, name) ==
  [k \in 1..Len(onNavigateCallbacks) |->
     LogEntry("notify", onNavigateCallbacks[k], nodeIndex, name, FALSE)]

(* variant: the listeners are told only after the first frame has been applied *)
StartNavigationNotifyLate(nodeIndex) ==
  LET node == nodePositions[nodeIndex + 1]
      eased == EaseInOut(Progress(0, Duration))
      pos0 == LerpVectors(camera.position, node.position, eased)
      tgt0 == LerpVectors(target, node.target, eased)
  IN  /\ currentNodeIndex' = nodeIndex
      /\ isTransitioning' = TRUE
      /\ anim' = [kind |-> IF gsap THEN "gsap" ELSE "fallback",
                  startPos |-> camera.position, startTarget |-> target,
                  endPos |-> node.position, endTarget |-> node.target,
                  elapsed |-> 0, durationMs |-> Duration]
      /\ camera' = IF gsap THEN camera ELSE [position |-> pos0, lookAt |-> tgt0]
      /\ target' = IF gsap THEN target ELSE tgt0
      /\ log' = << LogEntry("active", 0, nodeIndex, "", FALSE),
                   LogEntry(IF gsap THEN "tween" ELSE "pose", 0, nodeIndex, "", FALSE) >>
                 \o Notifications(nodeIndex, node.name)

(* listeners 1 and 2 return normally; listener 3 throws when it is called *)
ThrowingListeners == {3}

(* the position of the first listener that throws, 0 when none does: forEach stops
   there and the exception leaves navigateToNode *)
FirstThrowing(cbs) ==
  LET at == { k \in 1..Len(cbs) : cbs[k] \in ThrowingListeners }
  IN  IF at = {} THEN 0 ELSE CHOOSE k \in at : \A j \in at : k <= j

(* navigateToNode past its guards, up to its await: state, listeners, then the tween
   is created (engine) or fallbackTransition runs animate() once, at elapsed 0 *)
StartNavigation(nodeIndex) ==
       LET node == nodePositions[nodeIndex + 1]
           thrower == FirstThrowing(onNavigateCallbacks)
           started == [kind |-> IF gsap THEN "gsap" ELSE "fallback",
                       startPos |-> camera.position, startTarget |-> target,
                       endPos |-> node.position, endTarget |-> node.target,
                       elapsed |-> 0, durationMs |-> Duration]
           eased == EaseInOut(Progress(0, Duration))
           pos0 == LerpVectors(camera.position, node.position, eased)
           tgt0 == LerpVectors(target, node.target, eased)
           head == << LogEntry("active", 0, nodeIndex, "", FALSE) >>
                     \o Notifications(nodeIndex, node.name)
       IN  /\ currentNodeIndex' = nodeIndex
           /\ isTransitioning' = TRUE
           /\ IF thrower > 0
              THEN /\ log' = SubSeq(head, 1, thrower + 1)
                               \o << LogEntry("throw", onNavigateCallbacks[thrower],
                                              nodeIndex, "", FALSE) >>
                   /\ UNCHANGED << anim, poseVars >>
              ELSE /\ anim' = started
                   /\ IF gsap
                      THEN /\ UNCHANGED poseVars
                           /\ log' = head \o << LogEntry("tween", 0, nodeIndex, "", FALSE) >>
                      ELSE /\ camera' = [position |-> pos0, lookAt |-> tgt0]
                           /\ target' = tgt0
                           /\ log' = head \o << LogEntry("pose", 0, nodeIndex, "",
                                                   pos0 # camera.position \/ tgt0 # target) >>

(* variant: no 'already transitioning' guard *)
NavigateToNodeWhileActive(nodeIndex) ==
  IF nodeIndex < 0 \/ nodeIndex >= NodeCount
  THEN UNCHANGED << navVars, poseVars >>
  ELSE StartNavigation(nodeIndex)

(* variant: no lower bound on the index; the missing node makes the call throw
   after the index and the flag have been written *)
NavigateToNodeNoLowerBound(nodeIndex) ==
  IF nodeIndex >= NodeCount \/ isTransitioning
  THEN UNCHANGED << navVars, poseVars >>
  ELSE IF nodeIndex < 0
       THEN /\ currentNodeIndex' = nodeIndex
            /\ isTransitioning' = TRUE
            /\ UNCHANGED << anim, log, poseVars >>
       ELSE StartNavigation(nodeIndex)

NavigateToNodeBody(nodeIndex) ==
  IF nodeIndex < 0 \/ nodeIndex >= NodeCount \/ isTransitioning
  THEN UNCHANGED << navVars, poseVars >>
  ELSE StartNavigation(nodeIndex)

NavigateToNode(nodeIndex) ==
  /\ Step("navigateToNode", ToString(nodeIndex))
  /\ NavigateToNodeBody(nodeIndex)
  /\ UNCHANGED << confVars, orbitVars, inputVars >>

(* variant: the awaiting navigate call is never resumed after the last frame *)
TransitionFrameNeverResumed(dt) ==
  LET elapsed == anim.elapsed + dt
      p == Progress(elapsed, anim.durationMs)
      eased == IF anim.kind = "fallback" THEN EaseInOut(p) ELSE Power2InOut(p)
      pos == IF p = TrigScale /\ anim.kind # "fallback" THEN anim.endPos
             ELSE LerpVectors(anim.startPos, anim.endPos, eased)
      tgt == IF p = TrigScale /\ anim.kind # "fallback" THEN anim.endTarget
             ELSE LerpVectors(anim.startTarget, anim.endTarget, eased)
      pose == LogEntry("pose", 0, currentNodeIndex, "",
                       pos # anim.startPos \/ tgt # anim.startTarget)
  IN  /\ camera' = [position |-> pos, lookAt |-> tgt]
      /\ target' = tgt
      /\ anim' = IF p < TrigScale THEN [anim EXCEPT !.elapsed = elapsed] ELSE NoAnim
      /\ log' = Append(log, pose)
      /\ UNCHANGED << isTransitioning, spherical >>

(* one later frame of the transition in flight: animate() from requestAnimationFrame,
   or the engine's ticker driving both tweens; on the last one the awaiting
   navigate call resumes: updateSphericalFromCamera(), isTransitioning = false *)
TransitionFrame(dt) ==
  LET elapsed == anim.elapsed + dt
      p == Progress(elapsed, anim.durationMs)
      eased == IF anim.kind = "fallback" THEN EaseInOut(p) ELSE Power2InOut(p)
      pos == IF p = TrigScale /\ anim.kind # "fallback" THEN anim.endPos
             ELSE LerpVectors(anim.startPos, anim.endPos, eased)
      tgt == IF p = TrigScale /\ anim.kind # "fallback" THEN anim.endTarget
             ELSE LerpVectors(anim.startTarget, anim.endTarget, eased)
      pose == LogEntry("pose", 0, currentNodeIndex, "",
                       pos # anim.startPos \/ tgt # anim.startTarget)
  IN  /\ camera' = [position |-> pos, lookAt |-> tgt]
      /\ target' = tgt
      /\ IF p < TrigScale
         THEN /\ anim' = [anim EXCEPT !.elapsed = elapsed]
              /\ log' = Append(log, pose)
              /\ UNCHANGED << isTransitioning, spherical >>
         ELSE /\ spherical' = UpdateSphericalFromCamera(pos, tgt)
              /\ isTransitioning' = FALSE
              /\ anim' = NoAnim
              /\ log' = log \o << pose, LogEntry("reseed", 0, currentNodeIndex, "", FALSE),
                                  LogEntry("idle", 0, currentNodeIndex, "", FALSE) >>

Animate(dt) ==
  /\ anim.kind = "fallback"
  /\ Step("animate", "")
  /\ TransitionFrame(dt)
  /\ UNCHANGED << confVars, sphericalDelta, inputVars, currentNodeIndex >>

GsapTick(dt) ==
  /\ anim.kind \in {"gsap", "gsapPosition"}
  /\ Step("gsapTick", "")
  /\ TransitionFrame(dt)
  /\ UNCHANGED << confVars, sphericalDelta, inputVars, currentNodeIndex >>

(* where navigateToPosition puts the camera: 30 units from the position, away from
   lookAt (the position itself when no lookAt is given) *)
ViewPosition(position, lookAt) ==
  LET from == IF lookAt = NoLookAt THEN position ELSE lookAt
  IN  VAdd(position, ScaledDirection(VSub(position, from), ViewDistance))

RequestName(position, lookAt) == ToString(<< position, lookAt >>)

(* variant: no 'already transitioning' guard in navigateToPosition *)
NavigateToPositionWhileActive(position, lookAt) ==
  LET viewPosition == ViewPosition(position, lookAt)
      head == << LogEntry("active", 0, -1, RequestName(position, lookAt), FALSE) >>
  IN  /\ UNCHANGED << currentNodeIndex, poseVars >>
      /\ IF gsap
         THEN /\ isTransitioning' = TRUE
              /\ anim' = [kind |-> "gsapPosition",
                          startPos |-> camera.position, startTarget |-> target,
                          endPos |-> viewPosition, endTarget |-> position,
                          elapsed |-> 0, durationMs |-> Duration]
              /\ log' = head \o << LogEntry("tween", 0, -1, "", FALSE) >>
              /\ UNCHANGED spherical
         ELSE /\ spherical' = UpdateSphericalFromCamera(camera.position, target)
              /\ isTransitioning' = FALSE
              /\ log' = head \o << LogEntry("reseed", 0, -1, "", FALSE),
                                   LogEntry("idle", 0, -1, "", FALSE) >>
              /\ UNCHANGED anim

NavigateToPositionBody(position, lookAt) ==
  IF isTransitioning
  THEN UNCHANGED << navVars, poseVars, spherical >>
  ELSE LET viewPosition == ViewPosition(position, lookAt)
           head == << LogEntry("active", 0, -1, RequestName(position, lookAt), FALSE) >>
       IN  /\ UNCHANGED << currentNodeIndex, poseVars >>
           /\ IF gsap
              THEN /\ isTransitioning' = TRUE
                   /\ anim' = [kind |-> "gsapPosition",
                               startPos |-> camera.position, startTarget |-> target,
                               endPos |-> viewPosition, endTarget |-> position,
                               elapsed |-> 0, durationMs |-> Duration]
                   /\ log' = head \o << LogEntry("tween", 0, -1, "", FALSE) >>
                   /\ UNCHANGED spherical
              ELSE /\ spherical' = UpdateSphericalFromCamera(camera.position, target)
                   /\ log' = head \o << LogEntry("reseed", 0, -1, "", FALSE),
                                        LogEntry("idle", 0, -1, "", FALSE) >>
                   /\ UNCHANGED << isTransitioning, anim >>

NavigateToPosition(position, lookAt) ==
  /\ Step("navigateToPosition", "")
  /\ NavigateToPositionBody(position, lookAt)
  /\ UNCHANGED << confVars, sphericalDelta, inputVars >>

(* ------------------------------- keyboard ------------------------------ *)
DigitIndex(key) ==
  CASE key = "1" -> 0 [] key = "2" -> 1 [] key = "3" -> 2 [] key = "4" -> 3 [] key = "5" -> 4

(* variant: the neighbour index is not wrapped around *)
TabIndexNoWrap(shiftKey) ==
  IF shiftKey THEN currentNodeIndex - 1 ELSE currentNodeIndex + 1

TabIndex(shiftKey) ==
  IF shiftKey THEN (currentNodeIndex - 1 + NodeCount) % NodeCount
  ELSE (currentNodeIndex + 1) % NodeCount

KeyName(key, shiftKey) == IF key = "Tab" /\ shiftKey THEN "Shift+Tab" ELSE key

KeyDispatch(key, shiftKey) ==
  IF key \in DigitKeys
  THEN /\ IF DigitIndex(key) < NodeCount
          THEN NavigateToNodeBody(DigitIndex(key))
          ELSE UNCHANGED << navVars, poseVars >>
       /\ UNCHANGED orbitVars
  ELSE CASE key = "ArrowLeft" ->
              /\ sphericalDelta' = [sphericalDelta EXCEPT !.theta = @ + KeyRotate]
              /\ UNCHANGED << spherical, navVars, poseVars >>
         [] key = "ArrowRight" ->
              /\ sphericalDelta' = [sphericalDelta EXCEPT !.theta = @ - KeyRotate]
              /\ UNCHANGED << spherical, navVars, poseVars >>
         [] key = "ArrowUp" ->
              /\ sphericalDelta' = [sphericalDelta EXCEPT !.phi = @ - KeyRotate]
              /\ UNCHANGED << spherical, navVars, poseVars >>
         [] key = "ArrowDown" ->
              /\ sphericalDelta' = [sphericalDelta EXCEPT !.phi = @ + KeyRotate]
              /\ UNCHANGED << spherical, navVars, poseVars >>
         [] key \in {"+", "="} ->
              /\ spherical' = [spherical EXCEPT
                                 !.radius = Max(MinDistance, @ - ZoomAmount)]
              /\ UNCHANGED << sphericalDelta, navVars, poseVars >>
         [] key \in {"-", "_"} ->
              /\ spherical' = [spherical EXCEPT
                                 !.radius = Min(MaxDistance, @ + ZoomAmount)]
              /\ UNCHANGED << sphericalDelta, navVars, poseVars >>
         [] key = "Home" ->
              /\ NavigateToNodeBody(0)
              /\ UNCHANGED orbitVars
         [] key = "Tab" ->
              /\ NavigateToNodeBody(TabIndex(shiftKey))
              /\ UNCHANGED orbitVars
         [] OTHER -> UNCHANGED << orbitVars, navVars, poseVars >>

(* variant: no 'enabled' guard *)
OnKeyDownIgnoringEnabled(key, shiftKey) == KeyDispatch(key, shiftKey)

OnKeyDownBody(key, shiftKey) ==
  IF ~enabled
  THEN UNCHANGED << orbitVars, navVars, poseVars >>
  ELSE KeyDispatch(key, shiftKey)

OnKeyDown(key, shiftKey) ==
  /\ listening
  /\ Step("onKeyDown", KeyName(key, shiftKey))
  /\ OnKeyDownBody(key, shiftKey)
  /\ UNCHANGED << confVars, inputVars >>

(* ------------------------------- per frame ----------------------------- *)
(* variant: only the upper limit is enforced *)
ClampPolarUpperOnly(phi) == Min(MaxPolarAngle, phi)

ClampPolar(phi) == Max(MinPolarAngle, Min(MaxPolarAngle, phi))

(* variant: with damping disabled the pending deltas are not reset *)
ApplyOrbitKeepingPending ==
       LET theta == IF options.enableDamping
                    THEN spherical.theta + RDiv(sphericalDelta.theta * DampingPercent, 100)
                    ELSE spherical.theta + sphericalDelta.theta
           phi == IF options.enableDamping
                  THEN spherical.phi + RDiv(sphericalDelta.phi * DampingPercent, 100)
                  ELSE spherical.phi + sphericalDelta.phi
           s == [radius |-> spherical.radius, phi |-> ClampPolar(phi), theta |-> theta]
       IN  /\ spherical' = s
           /\ sphericalDelta' =
                IF options.enableDamping
                THEN [theta |-> RDiv(sphericalDelta.theta * (100 - DampingPercent), 100),
                      phi |-> RDiv(sphericalDelta.phi * (100 - DampingPercent), 100)]
                ELSE sphericalDelta
           /\ camera' = [position |-> VAdd(target, SetFromSpherical(s)), lookAt |-> target]
           /\ UNCHANGED target

ApplyOrbit ==
       LET theta == IF options.enableDamping
                    THEN spherical.theta + RDiv(sphericalDelta.theta * DampingPercent, 100)
                    ELSE spherical.theta + sphericalDelta.theta
           phi == IF options.enableDamping
                  THEN spherical.phi + RDiv(sphericalDelta.phi * DampingPercent, 100)
                  ELSE spherical.phi + sphericalDelta.phi
           s == [radius |-> spherical.radius, phi |-> ClampPolar(phi), theta |-> theta]
       IN  /\ spherical' = s
           /\ sphericalDelta' =
                IF options.enableDamping
                THEN [theta |-> RDiv(sphericalDelta.theta * (100 - DampingPercent), 100),
                      phi |-> RDiv(sphericalDelta.phi * (100 - DampingPercent), 100)]
                ELSE [theta |-> 0, phi |-> 0]
           /\ camera' = [position |-> VAdd(target, SetFromSpherical(s)), lookAt |-> target]
           /\ UNCHANGED target

(* variant: the tick does not look at isTransitioning *)
UpdateDuringTransition ==
  IF ~enabled
  THEN UNCHANGED << orbitVars, poseVars >>
  ELSE ApplyOrbit

UpdateBody ==
  IF ~enabled \/ isTransitioning
  THEN UNCHANGED << orbitVars, poseVars >>
  ELSE ApplyOrbit

Update ==
  /\ Step("update", "")
  /\ UpdateBody
  /\ UNCHANGED << confVars, inputVars, navVars >>

(* ------------------------------ configuration -------------------------- *)
OnNavigate(callback) ==
  /\ Len(onNavigateCallbacks) < MaxListeners
  /\ Step("onNavigate", "")
  /\ onNavigateCallbacks' = Append(onNavigateCallbacks, callback)
  /\ UNCHANGED << listening, gsap, options, enabled, orbitVars, poseVars, inputVars, navVars >>

IndexOf(seq, x) ==
  IF \E k \in 1..Len(seq) : seq[k] = x
  THEN CHOOSE k \in 1..Len(seq) : seq[k] = x /\ \A j \in 1..(k - 1) : seq[j] # x
  ELSE 0

OffNavigate(callback) ==
  /\ Step("offNavigate", "")
  /\ LET index == IndexOf(onNavigateCallbacks, callback)
     IN  onNavigateCallbacks' =
           IF index > 0
           THEN SubSeq(onNavigateCallbacks, 1, index - 1)
                  \o SubSeq(onNavigateCallbacks, index + 1, Len(onNavigateCallbacks))
           ELSE onNavigateCallbacks
  /\ UNCHANGED << listening, gsap, options, enabled, orbitVars, poseVars, inputVars, navVars >>

SetReducedMotion(on) ==
  /\ Step("setReducedMotion", "")
  /\ options' = [options EXCEPT !.reducedMotion = on]
  /\ UNCHANGED << listening, gsap, enabled, onNavigateCallbacks, orbitVars, poseVars,
                  inputVars, navVars >>

(* the owner assigns the public field 'enabled' *)
SetEnabled(on) ==
  /\ Step("setEnabled", "")
  /\ enabled' = on
  /\ UNCHANGED << listening, gsap, options, onNavigateCallbacks, orbitVars, poseVars,
                  inputVars, navVars >>

(* ----------------------------- specification --------------------------- *)
Next ==
  \/ \E available \in BOOLEAN : InitComplete(available)
  \/ \E e \in PointerDownEvents : OnPointerDown(e[1], e[2])
  \/ \E pos \in PointerPositions : OnPointerMove(pos)
  \/ OnPointerUp
  \/ \E deltaY \in WheelDeltas : OnWheel(deltaY)
  \/ \E e \in TouchEvents : OnTouchStart(e[1], e[2])
  \/ \E e \in TouchEvents : OnTouchMove(e[1], e[2])
  \/ \E e \in KeyEvents : OnKeyDown(e[1], e[2])
  \/ \E nodeIndex \in NodeIndexes : NavigateToNode(nodeIndex)
  \/ \E request \in PositionRequests : NavigateToPosition(request[1], request[2])
  \/ \E dt \in FrameGaps : Animate(dt)
  \/ \E dt \in FrameGaps : GsapTick(dt)
  \/ Update
  \/ \E callback \in Listeners : OnNavigate(callback)
  \/ \E callback \in Listeners : OffNavigate(callback)
  \/ \E on \in BOOLEAN : SetReducedMotion(on)
  \/ \E on \in BOOLEAN : SetEnabled(on)

Spec == Init /\ [][Next]_vars

(* ------------------- navigation with and without reduced motion -------- *)
NavNodeIndexes == {1, 2}

NavInit ==
  /\ ControllerInit({TRUE}, BOOLEAN)
  /\ InteractionInit
  /\ budget = MaxNavEvents
  /\ tabPresses = 0
  /\ AppConstructed

NavNext ==
  \/ \E available \in BOOLEAN : InitComplete(available)
  \/ OnNavigate(1)
  \/ \E nodeIndex \in NavNodeIndexes : NavigateToNode(nodeIndex)
  \/ \E request \in PositionRequests : NavigateToPosition(request[1], request[2])
  \/ \E dt \in FrameGaps : Animate(dt)
  \/ \E dt \in FrameGaps : GsapTick(dt)

NavSpec == NavInit /\ [][NavNext]_vars

(* ------------- navigation while frames keep being scheduled ------------- *)
LiveInit ==
  /\ ControllerInit({TRUE}, BOOLEAN)
  /\ InteractionInit
  /\ budget = MaxLiveEvents
  /\ tabPresses = 0
  /\ AppConstructed

(* one frame of the transition in flight; frames are not rationed *)
LiveFrame(dt) ==
  /\ anim.kind # "none"
  /\ last' = [op |-> IF anim.kind = "fallback" THEN "animate" ELSE "gsapTick", arg |-> ""]
  /\ TransitionFrame(dt)
  /\ UNCHANGED << nEvents, budget, confVars, sphericalDelta, inputVars, currentNodeIndex,
                  tabPresses, imVars, appVars >>

LiveFrameGaps == {500, 2000}

LiveFrames == \E dt \in LiveFrameGaps : LiveFrame(dt)

LiveNext ==
  \/ \E available \in BOOLEAN : InitComplete(available)
  \/ \E nodeIndex \in NavNodeIndexes : NavigateToNode(nodeIndex)
  \/ \E request \in PositionRequests : NavigateToPosition(request[1], request[2])
  \/ LiveFrames

(* what a frame callback does to the transition in flight: its clock advances or the
   transition is over; within LiveNext these are exactly the LiveFrames steps *)
FrameCallback ==
  /\ anim.kind # "none"
  /\ anim' \in {NoAnim} \cup { [anim EXCEPT !.elapsed = anim.elapsed + dt] : dt \in LiveFrameGaps }

(* requestAnimationFrame and the engine's ticker keep calling back *)
LiveSpec == LiveInit /\ [][LiveNext]_vars /\ WF_anim(FrameCallback)

(* ------------- free look before and after a navigation ------------------ *)
OrbitKeys == {"ArrowLeft", "ArrowRight", "ArrowUp", "ArrowDown"}
OrbitFrameGaps == {2000}

OrbitInit ==
  /\ ControllerInit(BOOLEAN, {FALSE})
  /\ InteractionInit
  /\ budget = MaxOrbitEvents
  /\ tabPresses = 0
  /\ AppConstructed

OrbitNext ==
  \/ \E available \in BOOLEAN : InitComplete(available)
  \/ \E key \in OrbitKeys : OnKeyDown(key, FALSE)
  \/ \E nodeIndex \in NavNodeIndexes : NavigateToNode(nodeIndex)
  \/ \E dt \in OrbitFrameGaps : Animate(dt)
  \/ \E dt \in OrbitFrameGaps : GsapTick(dt)
  \/ Update

OrbitSpec == OrbitInit /\ [][OrbitNext]_vars

(* ------------- navigation with a listener that throws ------------------- *)
ThrowListeners == {1, 3}

ThrowInit ==
  /\ ControllerInit({TRUE}, {FALSE})
  /\ InteractionInit
  /\ budget = MaxThrowEvents
  /\ tabPresses = 0
  /\ AppConstructed

ThrowNext ==
  \/ \E available \in BOOLEAN : InitComplete(available)
  \/ \E callback \in ThrowListeners : OnNavigate(callback)
  \/ \E nodeIndex \in NavNodeIndexes : NavigateToNode(nodeIndex)
  \/ LiveFrames
  \/ Update

ThrowSpec == ThrowInit /\ [][ThrowNext]_vars /\ WF_anim(FrameCallback)

(* ------------------- keyboard cycling through the nodes ----------------- *)
TabFrameGaps == {1000, 2000}

TabInit ==
  /\ ControllerInit({TRUE}, {FALSE})
  /\ InteractionInit
  /\ budget = MaxTabEvents
  /\ tabPresses = 0
  /\ AppConstructed

(* keydown of Tab or Shift+Tab *)
TabKey(shiftKey) ==
  /\ listening
  /\ Count("onKeyDown", KeyName("Tab", shiftKey))
  /\ OnKeyDownBody("Tab", shiftKey)
  /\ tabPresses' = IF enabled /\ ~isTransitioning
                   THEN (IF shiftKey THEN tabPresses - 1 ELSE tabPresses + 1)
                   ELSE tabPresses
  /\ UNCHANGED << confVars, inputVars, imVars, appVars >>

(* one frame of the transition in flight, on either path *)
TabFrame(dt) ==
  /\ anim.kind # "none"
  /\ Count(IF anim.kind = "fallback" THEN "animate" ELSE "gsapTick", "")
  /\ TransitionFrame(dt)
  /\ UNCHANGED << confVars, sphericalDelta, inputVars, currentNodeIndex, tabPresses, imVars,
                  appVars >>

TabNext ==
  \/ \E available \in BOOLEAN : InitComplete(available)
  \/ \E shiftKey \in BOOLEAN : TabKey(shiftKey)
  \/ \E dt \in TabFrameGaps : TabFrame(dt)

TabSpec == TabInit /\ [][TabNext]_vars

(* ========================= InteractionManager ========================== *)
(* the scene graph: two node groups with their core mesh, and one mesh that is
   not inside any node group *)
SceneMeshes == {"coreA", "coreB", "stray"}
NodeMeshes == {"coreA", "coreB"}

Parent(object) ==
  CASE object = "coreA" -> "nodeA"
    [] object = "coreB" -> "nodeB"
    [] OTHER -> NoObject

IsNode(object) == object \in {"nodeA", "nodeB"}

(* what the ray through a screen position meets, nearest first *)
RayHits(position) ==
  CASE position = "overA" -> << "coreA" >>
    [] position = "overB" -> << "coreB" >>
    [] position = "overStray" -> << "stray", "coreA" >>
    [] OTHER -> << >>

ScreenPositions == {"overA", "overB", "overStray", "empty"}
TapPositions == {"overA", "overB", "overStray", "empty"}
SelectableSets == { {}, NodeMeshes, SceneMeshes }
TimeSteps == {8, 16}

RECURSIVE Filter(_, _)
Filter(seq, set) ==
  IF seq = << >> THEN << >>
  ELSE IF Head(seq) \in set THEN << Head(seq) >> \o Filter(Tail(seq), set)
       ELSE Filter(Tail(seq), set)

(* variant: the ray is tested against the whole scene *)
RaycastAtWholeScene(position) == RayHits(position)

(* variant: the intersections come back farthest first *)
RaycastAtFarthestFirst(position) ==
  LET hits == Filter(RayHits(position), selectables)
  IN  [i \in 1..Len(hits) |-> hits[Len(hits) + 1 - i]]

(* raycaster.intersectObjects(this.selectables, true): sorted by distance *)
RaycastAt(position) == Filter(RayHits(position), selectables)

RECURSIVE FindNodeGroup(_)
FindNodeGroup(object) ==
  IF object = NoObject THEN NoObject
  ELSE IF IsNode(object) THEN object
       ELSE FindNodeGroup(Parent(object))

(* listeners 1 and 2 only observe; listener 3 calls off(event, itself) when invoked *)
SelfRemoving == {3}
Registrations == { <<"click", 1>>, <<"click", 3>>, <<"select", 2>>, <<"drag", 1>> }

RemoveAt(seq, index) ==
  IF index > 0 THEN SubSeq(seq, 1, index - 1) \o SubSeq(seq, index + 1, Len(seq)) ELSE seq

(* Array.prototype.forEach over the live array: index k is visited while it is
   still inside the array, whatever the callbacks did to the array meanwhile *)
RECURSIVE ForEach(_, _, _, _, _)
ForEach(list, k, event, entity, out) ==
  IF k > Len(list) THEN [list |-> list, out |-> out]
  ELSE LET cb == list[k]
           after == IF cb \in SelfRemoving THEN RemoveAt(list, IndexOf(list, cb)) ELSE list
       IN  ForEach(after, k + 1, event, entity,
                   Append(out, [ev |-> event, cb |-> cb, entity |-> entity]))

(* triggerCallbacks(event, entity) on the listener table cbs: the table it leaves
   behind and the invocations it made *)
TriggerCallbacks(cbs, event, entity) ==
  LET run == ForEach(cbs[event], 1, event, entity, << >>)
  IN  [cbs |-> [cbs EXCEPT ![event] = run.list], out |-> run.out]

Emission(event, entity) == [ev |-> event, entity |-> entity]

IsHoverEvent(e) == e.ev \in {"hover", "unhover"}

(* the handler's triggerCallbacks calls, the hover and unhover among them recorded *)
Emit(emissions) ==
  /\ emitted' = emissions
  /\ hoverLog' = hoverLog \o SelectSeq(emissions, IsHoverEvent)

camVars == << confVars, orbitVars, poseVars, pointerState, touchState, navVars, tabPresses,
             appVars >>

(* an InteractionManager handler: the camera controller is not touched *)
IStep(op, arg) ==
  /\ Count(op, arg)
  /\ UNCHANGED camVars

SetSelectables(objects) ==
  /\ last' = [op |-> "setSelectables", arg |-> ""]
  /\ selectables' = objects
  /\ Emit(<< >>)
  /\ delivered' = << >>
  /\ UNCHANGED << nEvents, budget, camVars, cursor, hoveredObject, selectedObject, isEnabled,
                  callbacks, hoverDebounceTimer, timers, normalizedMouse, lastMove >>

(* variant: the previous timeout is left pending *)
ClearTimeoutMissing(pending, handle) == pending

ClearTimeout(pending, handle) == { t \in pending : t.id # handle }

(* the handle setTimeout returns: one no pending timeout has *)
FreshTimer(pending) ==
  CHOOSE id \in 1..(Cardinality(pending) + 1) :
    (\A t \in pending : t.id # id) /\ (\A j \in 1..(id - 1) : \E t \in pending : t.id = j)

InteractionPointerMove(position) ==
  /\ IStep("pointermove", position)
  /\ Emit(<< >>)
  /\ delivered' = << >>
  /\ IF ~isEnabled
     THEN UNCHANGED << normalizedMouse, lastMove, timers, hoverDebounceTimer >>
     ELSE LET kept == IF hoverDebounceTimer # 0
                      THEN ClearTimeout(timers, hoverDebounceTimer) ELSE timers
              id == FreshTimer(kept)
          IN  /\ normalizedMouse' = position
              /\ lastMove' = [position |-> position, age |-> 0,
                               burst |-> IF kept # timers
                                         THEN Append(lastMove.burst, position)
                                         ELSE << position >>]
              /\ timers' = kept \cup { [id |-> id, due |-> HoverDebounce] }
              /\ hoverDebounceTimer' = id
  /\ UNCHANGED << cursor, selectables, hoveredObject, selectedObject, isEnabled, callbacks >>

(* time passes; a timeout that is due runs before more time passes *)
Advance(dt) ==
  /\ timers # {} \/ lastMove.age < HoverDebounce
  /\ \A t \in timers : t.due >= dt
  /\ timers' = { [id |-> t.id, due |-> t.due - dt] : t \in timers }
  /\ lastMove' = [lastMove EXCEPT !.age = Min(HoverDebounce, @ + dt)]
  /\ UNCHANGED << last, nEvents, budget, camVars, cursor, selectables, hoveredObject,
                  selectedObject, isEnabled, callbacks, hoverDebounceTimer, normalizedMouse,
                  emitted, delivered, hoverLog >>

CheckHover ==
  LET intersections == RaycastAt(normalizedMouse)
      nodeGroup == FindNodeGroup(intersections[1])
      exit == IF hoveredObject # NoObject
              THEN TriggerCallbacks(callbacks, "unhover", hoveredObject)
              ELSE [cbs |-> callbacks, out |-> << >>]
      exited == IF hoveredObject # NoObject
                THEN << Emission("unhover", hoveredObject) >> ELSE << >>
      enter == TriggerCallbacks(exit.cbs, "hover", nodeGroup)
  IN  IF Len(intersections) > 0
      THEN IF nodeGroup # hoveredObject
           THEN /\ hoveredObject' = nodeGroup
                /\ cursor' = "pointer"
                /\ callbacks' = enter.cbs
                /\ Emit(exited \o << Emission("hover", nodeGroup) >>)
                /\ delivered' = exit.out \o enter.out
           ELSE /\ Emit(<< >>)
                /\ delivered' = << >>
                /\ UNCHANGED << hoveredObject, cursor, callbacks >>
      ELSE IF hoveredObject # NoObject
           THEN /\ hoveredObject' = NoObject
                /\ cursor' = "grab"
                /\ callbacks' = exit.cbs
                /\ Emit(exited)
                /\ delivered' = exit.out
           ELSE /\ Emit(<< >>)
                /\ delivered' = << >>
                /\ UNCHANGED << hoveredObject, cursor, callbacks >>

(* the timeout callback: () => this.checkHover() *)
TimerFires ==
  \E t \in timers :
    /\ t.due = 0
    /\ timers' = timers \ {t}
    /\ last' = [op |-> "checkHover", arg |-> ""]
    /\ CheckHover
    /\ UNCHANGED << nEvents, budget, camVars, selectables, selectedObject, isEnabled,
                    hoverDebounceTimer, normalizedMouse, lastMove >>

(* onClick / onTouchEnd past the isEnabled guard: raycast at the event's position,
   then click and select for the node group of the nearest hit *)
Select(position) ==
  LET intersections == RaycastAt(position)
      nodeGroup == FindNodeGroup(intersections[1])
      click == TriggerCallbacks(callbacks, "click", nodeGroup)
      select == TriggerCallbacks(click.cbs, "select", nodeGroup)
  IN  /\ normalizedMouse' = position
      /\ IF Len(intersections) > 0 /\ nodeGroup # NoObject
         THEN /\ selectedObject' = nodeGroup
              /\ callbacks' = select.cbs
              /\ Emit(<< Emission("click", nodeGroup), Emission("select", nodeGroup) >>)
              /\ delivered' = click.out \o select.out
         ELSE /\ Emit(<< >>)
              /\ delivered' = << >>
              /\ UNCHANGED << selectedObject, callbacks >>

(* variant: selecting drops the pending hover check *)
SelectAtCancellingHover(position) ==
  /\ Select(position)
  /\ timers' = {}
  /\ UNCHANGED << hoveredObject, hoverDebounceTimer >>

SelectAt(position) ==
  /\ Select(position)
  /\ UNCHANGED << hoveredObject, timers, hoverDebounceTimer >>

Ignored ==
  /\ Emit(<< >>)
  /\ delivered' = << >>
  /\ UNCHANGED << normalizedMouse, selectedObject, callbacks, hoveredObject, timers,
                  hoverDebounceTimer >>

OnClick(position) ==
  /\ IStep("click", position)
  /\ IF ~isEnabled THEN Ignored ELSE SelectAt(position)
  /\ UNCHANGED << cursor, selectables, isEnabled, lastMove >>

OnTouchEnd(position) ==
  /\ IStep("touchend", position)
  /\ IF ~isEnabled THEN Ignored ELSE SelectAt(position)
  /\ UNCHANGED << cursor, selectables, isEnabled, lastMove >>

(* the click the browser dispatches after the touchend of a tap, at the same position
   (no handler calls preventDefault on a one-finger touch): onClick runs again *)
SynthesizedClick(position) ==
  /\ last = [op |-> "touchend", arg |-> position]
  /\ IStep("tapClick", position)
  /\ IF ~isEnabled THEN Ignored ELSE SelectAt(position)
  /\ UNCHANGED << cursor, selectables, isEnabled, lastMove >>

InteractionOn(event, callback) ==
  /\ event \in Channels => Len(callbacks[event]) < MaxListeners
  /\ IStep("on", event)
  /\ callbacks' = IF event \in Channels
                  THEN [callbacks EXCEPT ![event] = Append(@, callback)]
                  ELSE callbacks
  /\ Emit(<< >>)
  /\ delivered' = << >>
  /\ UNCHANGED << cursor, selectables, hoveredObject, selectedObject, isEnabled,
                  hoverDebounceTimer, timers, normalizedMouse, lastMove >>

InteractionOff(event, callback) ==
  /\ IStep("off", event)
  /\ callbacks' = IF event \in Channels
                  THEN [callbacks EXCEPT ![event] = RemoveAt(@, IndexOf(@, callback))]
                  ELSE callbacks
  /\ Emit(<< >>)
  /\ delivered' = << >>
  /\ UNCHANGED << cursor, selectables, hoveredObject, selectedObject, isEnabled,
                  hoverDebounceTimer, timers, normalizedMouse, lastMove >>

InteractionSetEnabled(on) ==
  /\ IStep("setEnabled", ToString(on))
  /\ isEnabled' = on
  /\ IF ~on
     THEN /\ cursor' = "default"
          /\ IF hoveredObject # NoObject
             THEN LET exit == TriggerCallbacks(callbacks, "unhover", hoveredObject)
                  IN  /\ hoveredObject' = NoObject
                      /\ callbacks' = exit.cbs
                      /\ Emit(<< Emission("unhover", hoveredObject) >>)
                      /\ delivered' = exit.out
             ELSE /\ Emit(<< >>)
                  /\ delivered' = << >>
                  /\ UNCHANGED << hoveredObject, callbacks >>
     ELSE /\ Emit(<< >>)
          /\ delivered' = << >>
          /\ UNCHANGED << cursor, hoveredObject, callbacks >>
  /\ UNCHANGED << selectables, selectedObject, hoverDebounceTimer, timers, normalizedMouse,
                  lastMove >>

(* ------------------------------ the App -------------------------------- *)
(* the listener initialize3D registers with the camera controller *)
AppListener == 1

(* initialize3D: cameraController.onNavigate((index, name) => setActiveNode(index)) *)
AppWire ==
  /\ onNavigateCallbacks = << >>
  /\ last' = [op |-> "initialize3D", arg |-> ""]
  /\ onNavigateCallbacks' = << AppListener >>
  /\ UNCHANGED << nEvents, budget, tabPresses, imVars, appVars, listening, gsap, options,
                  enabled, orbitVars, poseVars, inputVars, navVars >>

(* the camera controller takes the request: the index exists and it is idle *)
Accepted(index) == index >= 0 /\ index < NodeCount /\ ~isTransitioning

(* App.navigateToNode: the camera call, whose listener sets the active node when the
   call is accepted, then contentNodes.setSelected *)
AppNavigateToNode(index, active) ==
  /\ NavigateToNodeBody(index)
  /\ uiCurrentNodeIndex' = IF Accepted(index) THEN index ELSE active
  /\ contentSelected' = IF index >= 0 /\ index < NodeCount THEN index ELSE -1

AppStep(op, index) ==
  /\ onNavigateCallbacks = << AppListener >>
  /\ Count(op, ToString(index))
  /\ UNCHANGED << confVars, orbitVars, inputVars, imVars, tabPresses, disposed, a11yVars, loaderVars >>

(* a menu item: UIController.navigateToNode sets the active node, then options.onNavigate *)
MenuItem(index) ==
  /\ AppStep("menu", index)
  /\ AppNavigateToNode(index, index)

(* the select listener of setupInteractionCallbacks, for the node with that index *)
NodeSelected(index) ==
  /\ AppStep("select", index)
  /\ AppNavigateToNode(index, uiCurrentNodeIndex)

(* App.focusNode: camera call, then uiController.setActiveNode; no setSelected *)
FocusNode(index) ==
  /\ AppStep("focus", index)
  /\ NavigateToNodeBody(index)
  /\ uiCurrentNodeIndex' = index
  /\ UNCHANGED contentSelected

(* App.activateNode *)
ActivateNode(index) ==
  /\ AppStep("activate", index)
  /\ AppNavigateToNode(index, uiCurrentNodeIndex)

AppInit ==
  /\ ControllerInit({TRUE}, {FALSE})
  /\ InteractionInit
  /\ budget = MaxAppEvents
  /\ tabPresses = 0
  /\ AppConstructed

AppNext ==
  \/ \E available \in BOOLEAN : InitComplete(available)
  \/ AppWire
  \/ \E index \in NavNodeIndexes : MenuItem(index)
  \/ \E index \in NavNodeIndexes : NodeSelected(index)
  \/ \E index \in NavNodeIndexes : FocusNode(index)
  \/ \E index \in NavNodeIndexes : ActivateNode(index)
  \/ \E dt \in TabFrameGaps : Animate(dt)
  \/ \E dt \in TabFrameGaps : GsapTick(dt)

AppSpec == AppInit /\ [][AppNext]_vars

(* ------------------------ hover and selection -------------------------- *)
HoverInit ==
  /\ ControllerInit({TRUE}, {FALSE})
  /\ InteractionInit
  /\ budget = MaxHoverEvents
  /\ tabPresses = 0
  /\ AppConstructed

HoverNext ==
  \/ \E objects \in SelectableSets : SetSelectables(objects)
  \/ \E position \in ScreenPositions : InteractionPointerMove(position)
  \/ \E dt \in TimeSteps : Advance(dt)
  \/ TimerFires
  \/ \E position \in TapPositions : OnClick(position)
  \/ \E position \in TapPositions : OnTouchEnd(position)
  \/ \E position \in TapPositions : SynthesizedClick(position)
  \/ \E on \in BOOLEAN : InteractionSetEnabled(on)

HoverSpec == HoverInit /\ [][HoverNext]_vars

(* ------------------------ AccessibilityManager ------------------------- *)
(* where the keydown happened: the 3D surface, a text input, or inside the content
   panel or the navigation list *)
KeyTargets == {"canvas", "input", "panel"}
A11yKeys == {"Tab", "Enter", " ", "Escape", "Home", "End", "?"}
A11yEvents ==
  { [key |-> k, shiftKey |-> sh, target |-> t] :
      k \in A11yKeys, sh \in BOOLEAN, t \in KeyTargets }

(* variant: no wrap at the last node *)
FocusNextNodeUnwrapped(index) == index + 1

FocusNextNode(index) == (index + 1) % NodeCount

FocusPrevNode(index) == (index - 1 + NodeCount) % NodeCount

(* variant: Escape keeps keyboard navigation active *)
ClearFocusKept(active) == active

ClearFocus(active) == FALSE

(* focusNode(index) *)
A11yFocusNode(index) ==
  /\ currentFocusIndex' = index
  /\ isKeyboardNavActive' = TRUE
  /\ a11yCalls' = << << "onNodeFocus", index >> >>

A11yIgnored ==
  /\ a11yCalls' = << >>
  /\ UNCHANGED << currentFocusIndex, isKeyboardNavActive >>

(* the keydown listener of setupKeyboardNavigation *)
A11yKeyDown(e) ==
  /\ Count("a11yKeyDown", e.key)
  /\ a11yEvent' = e
  /\ IF e.target = "input" THEN A11yIgnored
     ELSE CASE e.key = "Tab" ->
                 IF e.target # "panel"
                 THEN A11yFocusNode(IF e.shiftKey THEN FocusPrevNode(currentFocusIndex)
                                    ELSE FocusNextNode(currentFocusIndex))
                 ELSE A11yIgnored
            [] e.key \in {"Enter", " "} ->
                 /\ a11yCalls' = IF isKeyboardNavActive
                                 THEN << << "onNodeActivate", currentFocusIndex >> >>
                                 ELSE << >>
                 /\ UNCHANGED << currentFocusIndex, isKeyboardNavActive >>
            [] e.key = "Escape" ->
                 /\ isKeyboardNavActive' = ClearFocus(isKeyboardNavActive)
                 /\ a11yCalls' = << >>
                 /\ UNCHANGED currentFocusIndex
            [] e.key = "Home" -> A11yFocusNode(0)
            [] e.key = "End" -> A11yFocusNode(NodeCount - 1)
            [] OTHER -> A11yIgnored
  /\ UNCHANGED << confVars, orbitVars, poseVars, inputVars, navVars, tabPresses, imVars,
                  uiVars, disposed, loaderVars >>

A11yInit ==
  /\ ControllerInit({TRUE}, {FALSE})
  /\ InteractionInit
  /\ budget = MaxA11yEvents
  /\ tabPresses = 0
  /\ AppConstructed

A11yNext == \E e \in A11yEvents : A11yKeyDown(e)

A11ySpec == A11yInit /\ [][A11yNext]_vars

(* ---------------------------- ContentLoader ---------------------------- *)
Percent == 100

Item(type) == [type |-> type, loaded |-> FALSE]

LoaderStep(op, arg) ==
  /\ Count(op, arg)
  /\ UNCHANGED << confVars, orbitVars, poseVars, inputVars, navVars, tabPresses, imVars,
                  uiVars, disposed, a11yVars >>

(* a continuation of a suspended start(): it is not one of the calls being counted *)
LoaderResumes(op, arg) ==
  /\ last' = [op |-> op, arg |-> arg]
  /\ UNCHANGED << nEvents, budget, confVars, orbitVars, poseVars, inputVars, navVars,
                  tabPresses, imVars, uiVars, disposed, a11yVars >>

AddToQueue(items) ==
  /\ Len(loadQueue) + Len(items) <= MaxQueue
  /\ LoaderStep("addToQueue", ToString(Len(items)))
  /\ loadQueue' = loadQueue \o items
  /\ totalItems' = Len(loadQueue')
  /\ reported' = << >>
  /\ UNCHANGED << loadedItems, progress, isLoading, loops >>

(* start(): for an empty queue the loop body never runs and the call reaches
   onComplete and the finally block without suspending *)
Start ==
  /\ LoaderStep("start", "")
  /\ IF isLoading
     THEN /\ reported' = << >>
          /\ UNCHANGED << isLoading, loops >>
     ELSE IF loadQueue = << >>
          THEN /\ reported' = << << "onComplete", progress >> >>
               /\ isLoading' = FALSE
               /\ UNCHANGED loops
          ELSE /\ reported' = << >>
               /\ isLoading' = TRUE
               /\ loops' = Append(loops, [attached |-> TRUE, pos |-> 1, len |-> 0])
  /\ UNCHANGED << loadQueue, totalItems, loadedItems, progress >>

(* updateProgress *)
UpdateProgress(loaded, total) ==
  IF total > 0 THEN (loaded * Percent * Percent) \div total ELSE 0

Without(seq, i) == SubSeq(seq, 1, i - 1) \o SubSeq(seq, i + 1, Len(seq))

(* the array a suspended start() iterates: the live loadQueue, or the array
   reset() has replaced *)
LoopLength(loop) == IF loop.attached THEN Len(loadQueue) ELSE loop.len

(* the awaited loadItem of loop i resolves: loadedItems++, updateProgress, then the
   next item, or onComplete and the finally block after the last one *)
ItemLoaded(i) ==
  /\ i \in 1..Len(loops)
  /\ loadedItems < MaxLoaded
  /\ LoaderResumes("itemLoaded", ToString(loops[i].pos))
  /\ LET loop == loops[i]
         done == loop.pos >= LoopLength(loop)
     IN  /\ loadedItems' = loadedItems + 1
         /\ progress' = UpdateProgress(loadedItems', totalItems)
         /\ loadQueue' = IF loop.attached
                         THEN [loadQueue EXCEPT ![loop.pos].loaded = TRUE]
                         ELSE loadQueue
         /\ reported' = << << "onProgress", progress' >> >>
                           \o (IF done THEN << << "onComplete", progress' >> >> ELSE << >>)
         /\ loops' = IF done THEN Without(loops, i)
                     ELSE [loops EXCEPT ![i].pos = loop.pos + 1]
         /\ isLoading' = IF done THEN FALSE ELSE isLoading
  /\ UNCHANGED totalItems

(* the awaited loadItem of loop i rejects: onError and the finally block *)
ItemFailed(i) ==
  /\ i \in 1..Len(loops)
  /\ LoaderResumes("itemFailed", ToString(loops[i].pos))
  /\ reported' = << << "onError", progress >> >>
  /\ loops' = Without(loops, i)
  /\ isLoading' = FALSE
  /\ UNCHANGED << loadQueue, totalItems, loadedItems, progress >>

(* reset(): this.loadQueue = [] leaves a suspended start() iterating the old array *)
Reset ==
  /\ LoaderStep("reset", "")
  /\ loadQueue' = << >>
  /\ totalItems' = 0
  /\ loadedItems' = 0
  /\ progress' = 0
  /\ isLoading' = FALSE
  /\ loops' = [i \in 1..Len(loops) |->
                IF loops[i].attached
                THEN [attached |-> FALSE, pos |-> loops[i].pos, len |-> Len(loadQueue)]
                ELSE loops[i]]
  /\ reported' = << >>

GetProgress == progress

IsComplete == loadedItems >= totalItems

LoaderInit ==
  /\ ControllerInit({TRUE}, {FALSE})
  /\ InteractionInit
  /\ budget = MaxLoaderEvents
  /\ tabPresses = 0
  /\ AppConstructed

LoaderNext ==
  \/ AddToQueue(<< Item("image") >>)
  \/ AddToQueue(<< Item("image"), Item("delay") >>)
  \/ Start
  \/ \E i \in 1..MaxLoaderEvents : ItemLoaded(i)
  \/ \E i \in 1..MaxLoaderEvents : ItemFailed(i)
  \/ Reset

LoaderSpec == LoaderInit /\ [][LoaderNext]_vars

(* ------------------------------ teardown ------------------------------- *)
(* setupEventListeners registers this.onX.bind(this); dispose hands the method
   this.onX itself to removeEventListener *)
BoundHandler == "this.onX.bind(this)"
MethodHandler == "this.onX"

(* EventTarget.removeEventListener: a listener stays attached unless the function
   handed over is the one that was registered *)
RemoveEventListener(attached, registered, removed) ==
  attached /\ registered # removed

(* CameraController.dispose *)
CameraDispose ==
  /\ Count("dispose", "camera")
  /\ listening' = RemoveEventListener(listening, BoundHandler, MethodHandler)
  /\ onNavigateCallbacks' = << >>
  /\ disposed' = disposed \cup {"camera"}
  /\ UNCHANGED << gsap, options, enabled, orbitVars, poseVars, inputVars, navVars,
                  imVars, tabPresses, uiVars, a11yVars, loaderVars >>

(* InteractionManager.dispose: its three removeEventListener calls hand over the
   methods too, so pointermove, click and touchend keep reaching the handlers *)
InteractionDispose ==
  /\ Count("dispose", "interaction")
  /\ timers' = IF hoverDebounceTimer # 0
               THEN ClearTimeout(timers, hoverDebounceTimer) ELSE timers
  /\ callbacks' = [c \in Channels |-> << >>]
  /\ selectables' = {}
  /\ Emit(<< >>)
  /\ delivered' = << >>
  /\ disposed' = disposed \cup {"interaction"}
  /\ UNCHANGED << confVars, orbitVars, poseVars, inputVars, navVars, tabPresses, uiVars, a11yVars, loaderVars,
                  hoveredObject, selectedObject, isEnabled, hoverDebounceTimer,
                  normalizedMouse, lastMove >>

DisposeInit ==
  /\ ControllerInit({TRUE}, {FALSE})
  /\ InteractionInit
  /\ budget = MaxDisposeEvents
  /\ tabPresses = 0
  /\ AppConstructed

DisposeNext ==
  \/ InitComplete(TRUE)
  \/ SetSelectables(NodeMeshes)
  \/ CameraDispose
  \/ InteractionDispose
  \/ OnPointerDown(0, << 0, 0 >>)
  \/ OnPointerMove(<< 300, 6000 >>)
  \/ OnWheel(100)
  \/ OnKeyDown("1", FALSE)
  \/ InteractionPointerMove("overA")
  \/ OnClick("overA")
  \/ \E dt \in TimeSteps : Advance(dt)
  \/ TimerFires

DisposeSpec == DisposeInit /\ [][DisposeNext]_vars

(* -------------------------- the shared cursor -------------------------- *)
(* both components are constructed on renderer.domElement *)
CursorInit ==
  /\ ControllerInit({TRUE}, {FALSE})
  /\ InteractionInit
  /\ budget = MaxCursorEvents
  /\ tabPresses = 0
  /\ AppConstructed

CursorNext ==
  \/ InitComplete(TRUE)
  \/ \E objects \in SelectableSets : SetSelectables(objects)
  \/ \E position \in ScreenPositions : InteractionPointerMove(position)
  \/ \E dt \in TimeSteps : Advance(dt)
  \/ TimerFires
  \/ OnPointerDown(0, << 0, 0 >>)
  \/ OnPointerUp

CursorSpec == CursorInit /\ [][CursorNext]_vars

(* --------------------------- event delivery ---------------------------- *)
DeliveryInit ==
  /\ ControllerInit({TRUE}, {FALSE})
  /\ InteractionInit
  /\ budget = MaxDeliveryEvents
  /\ tabPresses = 0
  /\ AppConstructed

DeliveryNext ==
  \/ SetSelectables(NodeMeshes)
  \/ \E r \in Registrations : InteractionOn(r[1], r[2])
  \/ \E r \in Registrations : InteractionOff(r[1], r[2])
  \/ \E position \in TapPositions : OnClick(position)

DeliverySpec == DeliveryInit /\ [][DeliveryNext]_vars

(* =============================== claims ================================ *)
DistanceInRange == MinDistance <= spherical.radius /\ spherical.radius <= MaxDistance
PolarInRange == MinPolarAngle <= spherical.phi /\ spherical.phi <= MaxPolarAngle

TransitionCompleted == last.op \in {"animate", "gsapTick"} /\ ~isTransitioning
ZoomOrTick == {"onWheel", "onTouchMove", "onKeyDown", "update"}
NavigationKeys == {"1", "2", "3", "4", "5", "Home", "Tab", "Shift+Tab"}
FreeLookKeys == {"ArrowLeft", "ArrowRight", "ArrowUp", "ArrowDown", "+", "=", "-", "_"}

(* C1: in every state reached through zoom/rotate input, ticks and completed
   transitions, the orbit distance is within [minDistance, maxDistance]; stated for
   the states right after a transition has completed and reseeded the orbit. *)
C1_DistanceInRangeAfterTransition == (listening /\ TransitionCompleted) => DistanceInRange

(* C2: from a distance within the limits, every zoom application (wheel, pinch,
   '+'/'-') and every tick leaves the distance within the limits: the handler itself
   clamps. *)
C2_ZoomKeepsDistanceInRange ==
  [][(DistanceInRange /\ last'.op \in ZoomOrTick) => DistanceInRange']_vars

C2_Witness ==
  /\ last.op = "onWheel"
  /\ listening /\ enabled /\ ~isTransitioning
  /\ spherical.radius = MaxDistance

(* C3: after every executed tick (enabled, no transition) the polar angle is within
   [minPolarAngle, maxPolarAngle], with or without damping. *)
C3_PolarClampedAfterTick ==
  (last.op = "update" /\ enabled /\ ~isTransitioning) => PolarInRange

C3_Witness ==
  /\ last.op = "update"
  /\ listening /\ enabled /\ ~isTransitioning
  /\ options.enableDamping
  /\ sphericalDelta.phi # 0
  /\ spherical.phi = MinPolarAngle

(* C4: a navigateToNode or navigateToPosition call made while a transition is
   active changes nothing: destination, currentNodeIndex, the active flag, the
   notification log, pose and orbit stay as they are; and when the transition in
   flight completes no other transition is started in its place. *)
C4_NavigateWhileActiveRejected ==
  [][ /\ (isTransitioning /\ last'.op \in {"navigateToNode", "navigateToPosition"})
         => UNCHANGED << navVars, poseVars, orbitVars, confVars >>
      /\ (isTransitioning /\ ~isTransitioning') => anim' = NoAnim ]_vars

C4_Witness ==
  /\ last.op = "navigateToNode"
  /\ last.arg \in {"0", "1"}
  /\ isTransitioning
  /\ last.arg # ToString(currentNodeIndex)

(* C5: in the step that accepts navigateToNode(index) the state becomes active,
   then every registered listener is called once, in order, with (index, name of
   node index), and only then the tween is created or the first frame is applied;
   that first frame leaves camera position and look-at target where they were. *)
C5_ListenersNotifiedBeforeMotion ==
  [][ (~isTransitioning /\ isTransitioning' /\ anim'.kind \in {"fallback", "gsap"})
        => LET n == Len(onNavigateCallbacks)
               i == currentNodeIndex'
           IN  /\ Len(log') = n + 2
               /\ log'[1].ev = "active" /\ log'[1].idx = i
               /\ \A k \in 1..n :
                    /\ log'[k + 1].ev = "notify"
                    /\ log'[k + 1].cb = onNavigateCallbacks[k]
                    /\ log'[k + 1].idx = i
                    /\ log'[k + 1].name = nodePositions[i + 1].name
               /\ log'[n + 2].ev = (IF gsap THEN "tween" ELSE "pose")
               /\ ~log'[n + 2].moved
               /\ camera'.position = camera.position
               /\ target' = target ]_vars

C5_Witness ==
  /\ isTransitioning
  /\ anim.kind \in {"fallback", "gsap"}
  /\ Len(log) = 4
  /\ log[2].ev = "notify" /\ log[3].ev = "notify"
  /\ log[2].cb # log[3].cb

(* C6: when a navigateToNode(i) transition completes, the camera is at node i's
   position, the look-at target at node i's target, the orbit equals the spherical
   coordinates of (position - target), and the state becomes idle after the final
   pose and the reseed. *)
C6_CompletionIsExact ==
  [][ (isTransitioning /\ ~isTransitioning' /\ anim.kind \in {"fallback", "gsap"})
        => LET node == nodePositions[currentNodeIndex + 1]
               n == Len(log')
           IN  /\ camera'.position = node.position
               /\ target' = node.target
               /\ camera'.lookAt = node.target
               /\ spherical' = SetFromVector3(VSub(node.position, node.target))
               /\ n >= 3
               /\ log'[n - 2].ev = "pose" /\ log'[n - 1].ev = "reseed"
               /\ log'[n].ev = "idle" ]_vars

C6_Witness ==
  /\ TransitionCompleted
  /\ currentNodeIndex = 1
  /\ camera.position = nodePositions[2].position
  /\ target = nodePositions[2].target

(* C7: a tick during a transition changes neither the orbit (angles, distance,
   pending deltas) nor the camera pose. *)
C7_TickIdleWhileTransitioning ==
  [][(isTransitioning /\ last'.op = "update") => UNCHANGED << orbitVars, poseVars >>]_vars

C7_Witness ==
  /\ last.op = "update"
  /\ isTransitioning /\ enabled
  /\ sphericalDelta.theta # 0

(* C8: digit keys, Tab, Shift+Tab and Home pressed during a transition or while the
   controller is disabled start nothing, notify nobody and keep currentNodeIndex. *)
C8_NavigationKeysIgnored ==
  [][ (last'.op = "onKeyDown" /\ last'.arg \in NavigationKeys
         /\ (isTransitioning \/ ~enabled))
        => UNCHANGED << navVars, poseVars >> ]_vars

C8_Witness ==
  /\ last.op = "onKeyDown"
  /\ last.arg = "Tab"
  /\ isTransitioning /\ enabled

(* C9: during a transition, pointer drag, wheel, pinch, arrow keys and '+'/'-' leave
   the orbit (distance, angles) and the pending rotate deltas unchanged. *)
C9_FreeLookInputIgnoredWhileActive ==
  [][ (isTransitioning
         /\ \/ last'.op \in {"onPointerMove", "onWheel", "onTouchMove"}
            \/ (last'.op = "onKeyDown" /\ last'.arg \in FreeLookKeys))
        => UNCHANGED orbitVars ]_vars

(* C10: navigateToNode with an index below 0 or at/above the node count changes
   nothing: no notification, same index, same idle/active state, same pose. *)
C10_OutOfRangeIndexIgnored ==
  [][ (last'.op = "navigateToNode" /\ last'.arg \in {ToString(-1), ToString(NodeCount)})
        => UNCHANGED << navVars, poseVars, orbitVars, confVars >> ]_vars

C10_Witness ==
  /\ last.op = "navigateToNode"
  /\ last.arg = ToString(NodeCount)
  /\ listening /\ ~isTransitioning

(* C11: while idle and enabled, Tab moves the active index to (index + 1) mod N and
   Shift+Tab to (index - 1 + N) mod N: the index always equals the number of Tab
   presses minus the number of Shift+Tab presses made in such states, modulo the
   node count, so five Tab presses from index 0 lead back to index 0. *)
C11_TabCyclesThroughNodes == currentNodeIndex = tabPresses % NodeCount

C11_Witness ==
  /\ tabPresses = NodeCount
  /\ currentNodeIndex = 0
  /\ TransitionCompleted

(* the timeout callback ran in this step *)
TimerFired == last'.op = "checkHover" /\ Cardinality(timers') < Cardinality(timers)

(* what the ray through a screen position resolves to: the node group of the nearest
   registered hit, or none *)
EntityAt(position) ==
  IF RaycastAt(position) = << >> THEN NoObject ELSE FindNodeGroup(RaycastAt(position)[1])

(* C12: a hover resolution that changes hoveredObject from a to b emits exactly one
   unhover for a if a is an entity and exactly one hover for b if b is an entity, the
   unhover first, and nothing else; a resolution that leaves hoveredObject alone
   emits nothing. *)
C12_HoverChangeEmitsExitThenEnter ==
  [][TimerFired =>
       emitted' = IF hoveredObject' = hoveredObject THEN << >>
                  ELSE (IF hoveredObject # NoObject
                        THEN << Emission("unhover", hoveredObject) >> ELSE << >>)
                       \o (IF hoveredObject' # NoObject
                           THEN << Emission("hover", hoveredObject') >> ELSE << >>)]_vars

(* C13: pointer moves emit nothing and leave the hover alone; no hover resolution runs
   until a full debounce interval has passed since the latest move, and when it then
   runs right after a series of moves only the entity under the position of the last
   move is entered. *)
C13_OnlyLastMoveOfBurstResolved ==
  [][/\ last'.op = "pointermove" /\ nEvents' # nEvents
          => emitted' = << >> /\ hoveredObject' = hoveredObject
     /\ TimerFired
          => /\ lastMove.age = HoverDebounce
             /\ last.op = "pointermove" /\ isEnabled
                  => \A k \in 1..Len(emitted') :
                       emitted'[k].ev = "hover"
                         => emitted'[k].entity = EntityAt(lastMove.position)]_vars

C13_Witness ==
  /\ last.op = "checkHover"
  /\ lastMove.burst = << "overA", "overStray", "overB" >>
  /\ emitted = << Emission("hover", "nodeB") >>
  /\ hoveredObject = "nodeB"

(* C14: the hover resolution that runs when the debounce timer expires uses the
   position of the last pointer move. *)
C14_ResolutionUsesLastMove ==
  [][TimerFired => normalizedMouse = lastMove.position]_vars

(* C15: while interaction is disabled hoveredObject is none and nothing is emitted,
   apart from the one unhover that setEnabled(false) itself emits. *)
C15_NothingEmittedWhileDisabled ==
  ~isEnabled =>
    /\ hoveredObject = NoObject
    /\ IF last.op = "setEnabled"
       THEN Len(emitted) <= 1 /\ \A k \in 1..Len(emitted) : emitted[k].ev = "unhover"
       ELSE emitted = << >>

(* C16: while enabled, a click or tap whose ray resolves to an entity sets
   selectedObject to it and emits click then select for it inside the handler,
   whether or not a debounce timer is pending, and leaves the pending timers, the
   timer handle and hoveredObject as they were. *)
C16_SelectionIsSynchronous ==
  [][(last'.op \in {"click", "touchend"} /\ nEvents' # nEvents /\ isEnabled
        /\ EntityAt(last'.arg) # NoObject)
       => /\ selectedObject' = EntityAt(last'.arg)
          /\ emitted' = << Emission("click", EntityAt(last'.arg)),
                           Emission("select", EntityAt(last'.arg)) >>
          /\ timers' = timers
          /\ hoverDebounceTimer' = hoverDebounceTimer
          /\ hoveredObject' = hoveredObject]_vars

C16_Witness ==
  /\ last.op \in {"click", "touchend"}
  /\ timers # {}
  /\ selectedObject = "nodeB"
  /\ hoveredObject = "nodeA"
  /\ emitted = << Emission("click", "nodeB"), Emission("select", "nodeB") >>

RECURSIVE ExpectedDeliveries(_, _)
ExpectedDeliveries(emissions, cbs) ==
  IF emissions = << >> THEN << >>
  ELSE LET e == Head(emissions)
       IN  [k \in 1..Len(cbs[e.ev]) |-> [ev |-> e.ev, cb |-> cbs[e.ev][k], entity |-> e.entity]]
             \o ExpectedDeliveries(Tail(emissions), cbs)

(* C17: every event a handler emits is delivered to each listener that was
   registered on its channel when the handler started, once per registration and in
   registration order, also when a listener unregisters itself during delivery. *)
C17_DeliveredToEveryListenerInOrder ==
  [][nEvents' # nEvents => delivered' = ExpectedDeliveries(emitted', callbacks)]_vars

(* the pose a navigation request asks for: the node's, or the view position of the
   requested point *)
Destination(entry) ==
  IF entry.idx >= 0
  THEN [position |-> nodePositions[entry.idx + 1].position,
        target |-> nodePositions[entry.idx + 1].target]
  ELSE LET r == CHOOSE r \in PositionRequests : RequestName(r[1], r[2]) = entry.name
       IN  [position |-> ViewPosition(r[1], r[2]), target |-> r[1]]

NavigationEnded ==
  /\ last.op \in {"animate", "gsapTick", "navigateToNode", "navigateToPosition"}
  /\ ~isTransitioning
  /\ log # << >>
  /\ log[Len(log)].ev = "idle"

(* C18: whenever navigateToNode or navigateToPosition has ended, with the engine or
   on the fallback path, the state is idle and the camera and the look-at target are
   at the pose the request asked for. *)
C18_SameEndWithEngineOrFallback ==
  NavigationEnded =>
    /\ camera.position = Destination(log[1]).position
    /\ camera.lookAt = Destination(log[1]).target
    /\ target = Destination(log[1]).target

PoseUpdates == { k \in 1..Len(log) : log[k].ev = "pose" }

(* C19: with reduced motion a navigateToNode transition is over after one frame tick
   and has written the camera pose exactly once, after the listeners were told. *)
C19_ReducedMotionCompletesInOneTick ==
  (options.reducedMotion /\ log # << >> /\ log[1].idx >= 0) =>
    /\ isTransitioning => anim.elapsed = 0
    /\ ~isTransitioning =>
         /\ Cardinality(PoseUpdates) = 1
         /\ \A k \in 1..Len(log) : log[k].ev = "notify" => \A j \in PoseUpdates : k < j

EventNames(entries) == [k \in 1..Len(entries) |-> entries[k].ev]
NotifiedListeners(entries) ==
  LET told == { k \in 1..Len(entries) : entries[k].ev = "notify" }
  IN  [k \in 1..Cardinality(told) |-> entries[k + 1].cb]

(* C20: the order of what a navigation does is the same with and without reduced
   motion: on acceptance the state becomes active, every registered listener is told
   in order, then the motion starts; every later frame writes the pose once; the last
   one is followed by the reseed and the return to idle at the requested pose.  Only
   the duration of the motion depends on reducedMotion. *)
C20_ReducedMotionChangesOnlyDuration ==
  [][/\ (~isTransitioning /\ isTransitioning')
          => /\ anim'.durationMs = IF options.reducedMotion THEN ReducedMs ELSE TransitionMs
             /\ IF log'[1].idx >= 0
                THEN /\ Len(log') = Len(onNavigateCallbacks) + 2
                     /\ NotifiedListeners(log') = onNavigateCallbacks
                     /\ EventNames(log') =
                          << "active" >> \o [k \in 1..Len(onNavigateCallbacks) |-> "notify"]
                            \o << IF gsap THEN "tween" ELSE "pose" >>
                ELSE EventNames(log') = << "active", "tween" >>
     /\ (isTransitioning /\ log' # log)
          => \/ /\ isTransitioning'
                /\ EventNames(log') = EventNames(log) \o << "pose" >>
             \/ /\ ~isTransitioning'
                /\ EventNames(log') = EventNames(log) \o << "pose", "reseed", "idle" >>
                /\ camera'.position = Destination(log[1]).position
                /\ target' = Destination(log[1]).target]_vars

C20_Witness ==
  /\ options.reducedMotion
  /\ NavigationEnded
  /\ log[1].idx >= 0
  /\ \E k \in 1..Len(log) : log[k].ev = "notify"
  /\ Cardinality(PoseUpdates) >= 2

(* C21: provided frames keep coming, every transition that is in flight ends: the
   state returns to idle, where the next navigate call is accepted. *)
C21_TransitionEventuallyCompletes == isTransitioning ~> ~isTransitioning

C21_Witness ==
  /\ isTransitioning
  /\ anim.startPos = nodePositions[2].position
  /\ anim.endPos = nodePositions[3].position
  /\ anim.elapsed > 0

(* C22: at most one transition is in flight: an interpolation loop (fallback frames or
   engine tweens) is started only while no other loop is running and the state is
   idle, whichever of navigateToNode and navigateToPosition starts it. *)
C22_OneTransitionInFlight ==
  [][(anim'.kind # "none" /\ anim'.elapsed = 0 /\ log' # log)
       => (anim.kind = "none" /\ ~isTransitioning)]_vars

C22_Witness ==
  /\ last.op = "navigateToPosition"
  /\ gsap
  /\ anim.kind = "gsap"
  /\ anim.elapsed > 0
  /\ isTransitioning

(* the latest handler was the frame that completed a navigation *)
JustArrived ==
  /\ last.op \in {"animate", "gsapTick"}
  /\ ~isTransitioning
  /\ log # << >>
  /\ log[Len(log)].ev = "idle"

(* C23: the first update() tick after a transition has completed, nothing else having
   happened since, leaves the camera and the look-at target at the destination pose,
   whatever rotate deltas were pending when the transition started. *)
C23_PoseStaysAtDestination ==
  [][(JustArrived /\ last'.op = "update" /\ nEvents' # nEvents)
       => (camera' = camera /\ target' = target)]_vars

(* the same tick with nothing pending does keep the destination pose *)
PoseKeptWithoutPendingDelta ==
  [][(JustArrived /\ last'.op = "update" /\ nEvents' # nEvents
        /\ sphericalDelta = [theta |-> 0, phi |-> 0])
       => (camera' = camera /\ target' = target)]_vars

(* the registered drawable the ray meets first, or none *)
NearestRegistered(position) ==
  LET hits == RayHits(position)
      registered == { i \in 1..Len(hits) : hits[i] \in selectables }
  IN  IF registered = {} THEN NoObject
      ELSE hits[CHOOSE i \in registered : \A j \in registered : i <= j]

(* the node root an object belongs to: itself, or its parent group, or none *)
NodeRootOf(object) ==
  IF object \in {"nodeA", "nodeB"} THEN object
  ELSE IF object \in {"coreA", "coreB"} THEN Parent(object)
       ELSE NoObject

Resolved(position) == NodeRootOf(NearestRegistered(position))

IsTap == last'.op \in {"click", "touchend"} /\ nEvents' # nEvents /\ isEnabled

(* C24: a resolution yields the node root of the nearest registered drawable the ray
   meets, or none when nothing is hit or that drawable has no node root; a hit
   farther away is never chosen. A hover resolution leaves it in hoveredObject; a
   click or tap selects it and emits click and select for it when it is an entity,
   and changes and emits nothing otherwise. *)
C24_NearestHitResolves ==
  [][/\ TimerFired => hoveredObject' = Resolved(normalizedMouse)
     /\ IsTap =>
          IF Resolved(last'.arg) # NoObject
          THEN /\ selectedObject' = Resolved(last'.arg)
               /\ emitted' = << Emission("click", Resolved(last'.arg)),
                                Emission("select", Resolved(last'.arg)) >>
          ELSE /\ selectedObject' = selectedObject
               /\ emitted' = << >>]_vars

C24_Witness ==
  /\ last.op = "checkHover"
  /\ normalizedMouse = "overStray"
  /\ selectables = SceneMeshes
  /\ hoveredObject = NoObject
  /\ emitted # << >>

(* C25: while no object is registered, every hover resolution and every click or tap
   resolves to none: no hover, click or select is emitted, selectedObject is kept,
   and hoveredObject is kept too unless a hover exists, which is exited. *)
C25_NothingResolvesWithoutSelectables ==
  [][(selectables = {} /\ selectables' = {}) =>
       /\ TimerFired =>
            /\ hoveredObject' = NoObject
            /\ selectedObject' = selectedObject
            /\ emitted' = IF hoveredObject # NoObject
                          THEN << Emission("unhover", hoveredObject) >> ELSE << >>
       /\ IsTap =>
            /\ hoveredObject' = hoveredObject
            /\ selectedObject' = selectedObject
            /\ emitted' = << >>]_vars

C25_Witness ==
  /\ selectables = {}
  /\ last.op = "checkHover"
  /\ normalizedMouse = "overB"
  /\ emitted = << Emission("unhover", "nodeA") >>

(* an update() tick that is not skipped *)
Ticked == last'.op = "update" /\ nEvents' # nEvents /\ enabled /\ ~isTransitioning

(* moved is the share percent of pending, to half a unit of the angle scale *)
IsShare(moved, pending, percent) == Abs(100 * moved - percent * pending) <= 50

Decayed(after, before) ==
  /\ IsShare(after, before, 100 - DampingPercent)
  /\ Abs(after) <= Abs(before)
  /\ (before >= 0 => after >= 0) /\ (before <= 0 => after <= 0)

(* what an arrow key adds to the pending deltas *)
KeyContribution(key) ==
  CASE key = "ArrowLeft" -> [theta |-> KeyRotate, phi |-> 0]
    [] key = "ArrowRight" -> [theta |-> -KeyRotate, phi |-> 0]
    [] key = "ArrowUp" -> [theta |-> 0, phi |-> -KeyRotate]
    [] key = "ArrowDown" -> [theta |-> 0, phi |-> KeyRotate]
    [] OTHER -> [theta |-> 0, phi |-> 0]

(* C26: with damping disabled one tick adds the whole pending deltas to the angles
   and resets them to zero; with damping enabled it adds pending * dampingFactor and
   leaves pending * (1 - dampingFactor), which is no larger in magnitude and of the
   same sign. The polar angle is the sum brought back into its limits. Rotate inputs
   add to the pending deltas an amount that does not depend on what is pending, so
   inputs between two ticks accumulate and their order does not matter. *)
C26_TickIntegratesPending ==
  [][/\ (Ticked /\ ~options.enableDamping) =>
          /\ spherical'.theta = spherical.theta + sphericalDelta.theta
          /\ spherical'.phi = ClampPolar(spherical.phi + sphericalDelta.phi)
          /\ sphericalDelta' = [theta |-> 0, phi |-> 0]
     /\ (Ticked /\ options.enableDamping) =>
          /\ IsShare(spherical'.theta - spherical.theta, sphericalDelta.theta, DampingPercent)
          /\ \/ IsShare(spherical'.phi - spherical.phi, sphericalDelta.phi, DampingPercent)
             \/ spherical'.phi \in {MinPolarAngle, MaxPolarAngle}
          /\ Decayed(sphericalDelta'.theta, sphericalDelta.theta)
          /\ Decayed(sphericalDelta'.phi, sphericalDelta.phi)
     /\ (last'.op = "onKeyDown" /\ nEvents' # nEvents /\ enabled) =>
          /\ sphericalDelta'.theta = sphericalDelta.theta + KeyContribution(last'.arg).theta
          /\ sphericalDelta'.phi = sphericalDelta.phi + KeyContribution(last'.arg).phi
     /\ (last'.op = "onPointerMove" /\ nEvents' # nEvents /\ enabled /\ pointerState.isDown) =>
          /\ sphericalDelta'.theta = sphericalDelta.theta
               - (pointerState'.currentX - pointerState.currentX) * PixelRotate
          /\ sphericalDelta'.phi = sphericalDelta.phi
               - (pointerState'.currentY - pointerState.currentY) * PixelRotate]_vars

C26_Witness ==
  /\ last.op = "update"
  /\ options.enableDamping
  /\ sphericalDelta = [theta |-> 2 * KeyRotate - 50, phi |-> 0]

(* elapsed times every 25 ms, to just past the longer duration *)
SampleTimes == { 25 * k : k \in 0..EaseSamples }

(* e is the eased value of progress p, to half a unit of the progress scale *)
IsEased(p, e) ==
  IF 2 * p < TrigScale
  THEN Abs(TrigScale * e - 2 * p * p) <= TrigScale \div 2
  ELSE Abs(2 * TrigScale * (TrigScale - e) - (2 * TrigScale - 2 * p) * (2 * TrigScale - 2 * p))
         <= TrigScale

IsMidpoint(v, a, b) == \A i \in 1..3 : Abs(2 * v[i] - (a[i] + b[i])) <= 1

(* C27: progress is min(elapsed / duration, 1); the eased progress is 2p^2 below one
   half and 1 - (-2p + 2)^2 / 2 from there on, so it is 0 at 0, 1/2 at 1/2, 1 at 1
   and never decreases; a fallback transition that is half its duration old has the
   camera position and the look-at target at the midpoints of their start and end. *)
C27_EaseInOutCurve ==
  /\ \A elapsed \in SampleTimes : \A durationMs \in {ReducedMs, TransitionMs} :
       LET p == Progress(elapsed, durationMs)
       IN  /\ 0 <= p /\ p <= TrigScale
           /\ elapsed >= durationMs => p = TrigScale
           /\ elapsed < durationMs => Abs(durationMs * p - elapsed * TrigScale) <= durationMs \div 2
           /\ IsEased(p, EaseInOut(p))
           /\ EaseInOut(Progress(elapsed + 25, durationMs)) >= EaseInOut(p)
  /\ EaseInOut(0) = 0
  /\ EaseInOut(TrigScale \div 2) = TrigScale \div 2
  /\ EaseInOut(TrigScale) = TrigScale
  /\ (anim.kind = "fallback" /\ 2 * anim.elapsed = anim.durationMs) =>
       /\ IsMidpoint(camera.position, anim.startPos, anim.endPos)
       /\ IsMidpoint(target, anim.startTarget, anim.endTarget)

C27_Witness ==
  /\ anim.kind = "fallback"
  /\ 2 * anim.elapsed = anim.durationMs
  /\ last.op = "animate"
  /\ camera.position # anim.startPos
  /\ camera.position # anim.endPos

Selects(emissions) == { i \in 1..Len(emissions) : emissions[i].ev = "select" }

(* C28: a click or tap on an entity emits one click and one select; when a touch tap
   is delivered as touchend followed by the browser's click at the same position,
   the second of the two does not emit select again. *)
C28_TapSelectsOnce ==
  [][/\ (IsTap /\ Resolved(last'.arg) # NoObject) => Cardinality(Selects(emitted')) = 1
     /\ (last'.op = "tapClick" /\ nEvents' # nEvents) => Selects(emitted') = {}]_vars

Enters(emissions) == { i \in 1..Len(emissions) : emissions[i].ev = "hover" }

(* C29: no hover is ever emitted without an entity, and a resolution whose nearest
   hit has no node root is treated like a miss: the current hover, if any, is exited,
   no hover is emitted, and the cursor is not left at 'pointer'. *)
C29_NoHoverWithoutEntity ==
  [][/\ \A i \in Enters(emitted') : emitted'[i].entity # NoObject
     /\ (TimerFired /\ Resolved(normalizedMouse) = NoObject) =>
          /\ Enters(emitted') = {}
          /\ hoveredObject # NoObject =>
               (emitted' = << Emission("unhover", hoveredObject) >> /\ cursor' # "pointer")]_vars

Alternating(events) ==
  /\ \A i \in 1..Len(events) :
       events[i].ev = IF i % 2 = 1 THEN "hover" ELSE "unhover"
  /\ \A i \in 1..Len(events) :
       i % 2 = 0 => events[i].entity = events[i - 1].entity

(* C30: over any sequence of pointer moves, timer expiries, clicks, setEnabled and
   registration calls, the hover events emitted so far alternate hover, unhover,
   hover, ... starting with a hover, each unhover carries the entity of the hover
   just before it, and hoveredObject is the entity of the last hover that has no
   unhover yet, or none. *)
C30_HoverEventsAlternate ==
  /\ Alternating(hoverLog)
  /\ hoveredObject = IF Len(hoverLog) % 2 = 1 THEN hoverLog[Len(hoverLog)].entity
                     ELSE NoObject

(* the same, for the behaviours in which no hover was emitted without an entity *)
AlternateUnlessHoverWithoutEntity ==
  (\A i \in 1..Len(hoverLog) : hoverLog[i].entity # NoObject) => C30_HoverEventsAlternate

(* C31: an update() tick made before any input handler has run, whether or not init()
   has completed, does not move the camera (the camera starts with its polar angle
   inside the clamp range). *)
C31_FirstTickKeepsCamera ==
  [][(nEvents = 0 /\ last'.op = "update" /\ nEvents' = 1)
       => (camera' = camera /\ target' = target)]_vars

(* the same tick once init() has seeded the spherical state *)
FirstTickAfterInitKeepsCamera ==
  [][(listening /\ nEvents = 0 /\ last'.op = "update" /\ nEvents' = 1)
       => (camera' = camera /\ target' = target)]_vars

(* C32: when a navigation listener throws during the notification of an accepted
   navigateToNode, the controller does not stay active forever: provided frames keep
   being scheduled it is idle again and again, so that later navigate calls and
   update() ticks are processed. *)
C32_IdleAgainAfterListenerThrows == []<>(~isTransitioning)

(* the same controller when no registered listener throws *)
IdleAgainUnlessListenerThrows ==
  []<>(~isTransitioning \/ FirstThrowing(onNavigateCallbacks) > 0)

AppRequest == last'.op \in {"menu", "select", "focus", "activate"} /\ nEvents' # nEvents

(* C33: after every navigation request made through the App (menu item, select
   event, keyboard focus or activate) the UI's active-node index and the content
   layer's selected node are the camera controller's currentNodeIndex, and a
   request the camera controller rejects because a transition is in flight changes
   none of the three. *)
C33_AppIndexesAgree ==
  [][AppRequest =>
       /\ uiCurrentNodeIndex' = currentNodeIndex'
       /\ contentSelected' = currentNodeIndex'
       /\ isTransitioning =>
            UNCHANGED << uiCurrentNodeIndex, contentSelected, currentNodeIndex >>]_vars

(* what does hold: a request other than focus that the camera accepts leaves the
   three in agreement *)
AcceptedRequestsAgree ==
  [][(AppRequest /\ ~isTransitioning /\ last'.op # "focus") =>
       /\ uiCurrentNodeIndex' = currentNodeIndex'
       /\ contentSelected' = currentNodeIndex']_vars

DragStarts == ~pointerState.isDown /\ pointerState'.isDown
DragEnds == pointerState.isDown /\ ~pointerState'.isDown
Handled(op) == last'.op = op /\ nEvents' # nEvents

(* C34: a drag is in progress exactly from a primary-button pointerdown taken while
   enabled and idle to the next pointerup or pointercancel: no other pointerdown
   starts one; a pointer-move adds to the pending rotate deltas only during a drag
   and leaves the orbit state unchanged outside one. *)
C34_RotateOnlyWhileDragging ==
  [][/\ DragStarts => (Handled("onPointerDown") /\ last'.arg = "0"
                         /\ enabled /\ ~isTransitioning)
     /\ (Handled("onPointerDown") /\ last'.arg = "0" /\ enabled /\ ~isTransitioning)
          => pointerState'.isDown
     /\ DragEnds => Handled("onPointerUp")
     /\ Handled("onPointerUp") => ~pointerState'.isDown
     /\ (Handled("onPointerMove") /\ sphericalDelta' # sphericalDelta)
          => pointerState.isDown
     /\ (Handled("onPointerMove") /\ ~pointerState.isDown)
          => UNCHANGED << orbitVars, poseVars >>]_vars

C34_Witness ==
  /\ last.op = "onPointerMove"
  /\ pointerState.isDown
  /\ sphericalDelta.theta # 0

CursorWritten == last.op \in {"checkHover", "onPointerDown", "onPointerUp"}

(* C35: while interaction is enabled and no drag is in progress, after any
   interleaving of hover resolutions with the camera controller's pointerdown and
   pointerup handling, the cursor is 'pointer' exactly when an entity is hovered and
   'grab' otherwise. *)
C35_CursorFollowsHover ==
  (CursorWritten /\ cursor # "" /\ isEnabled /\ ~pointerState.isDown) =>
    /\ cursor = "pointer" <=> hoveredObject # NoObject
    /\ cursor = "grab" <=> hoveredObject = NoObject

DomEvent ==
  \E op \in {"onPointerDown", "onPointerMove", "onPointerUp", "onWheel", "onTouchStart",
             "onTouchMove", "onKeyDown", "pointermove", "click", "touchend"} : Handled(op)

(* C36: once CameraController.dispose() and InteractionManager.dispose() have run,
   a DOM input event changes no controller or interaction state, emits nothing and
   starts no transition, and no debounce timer is pending. *)
C36_DisposedIgnoresInput ==
  [][/\ (disposed = {"camera", "interaction"} /\ DomEvent) =>
          /\ UNCHANGED << enabled, orbitVars, poseVars, inputVars, isTransitioning,
                          currentNodeIndex, anim >>
          /\ UNCHANGED << hoveredObject, selectedObject, normalizedMouse,
                          hoverDebounceTimer, timers >>
          /\ emitted' = << >>
     /\ disposed' = {"camera", "interaction"} => timers' = {}]_vars

FocusKeys == {"Tab", "Home", "End"}
KeyPressed(keys) == Handled("a11yKeyDown") /\ a11yEvent'.key \in keys

(* the keydown is not skipped: it did not happen in a text input and, for Tab, not
   inside the content panel or the navigation list *)
Reaches(e) == e.target # "input" /\ (e.key = "Tab" => e.target # "panel")

FocusMoved ==
  /\ currentFocusIndex' =
       CASE a11yEvent'.key = "Home" -> 0
         [] a11yEvent'.key = "End" -> NodeCount - 1
         [] a11yEvent'.key = "Tab" /\ a11yEvent'.shiftKey ->
              IF currentFocusIndex = 0 THEN NodeCount - 1 ELSE currentFocusIndex - 1
         [] OTHER ->
              IF currentFocusIndex = NodeCount - 1 THEN 0 ELSE currentFocusIndex + 1
  /\ a11yCalls' = << << "onNodeFocus", currentFocusIndex' >> >>

(* C37 as stated: currentFocusIndex stays within 0..nodeCount-1, and every Tab,
   Shift+Tab, Home and End keydown moves it (next with wrap, previous with wrap,
   first, last) and calls onNodeFocus exactly once with the new index. *)
C37_FocusKeysMoveIndex ==
  [][/\ currentFocusIndex' \in 0..(NodeCount - 1)
     /\ KeyPressed(FocusKeys) => FocusMoved]_vars

(* C37 amended: the same for the focus keydowns that are not skipped; a skipped one
   changes nothing and calls nothing. *)
C37_ReachingFocusKeysMoveIndex ==
  [][/\ currentFocusIndex' \in 0..(NodeCount - 1)
     /\ (KeyPressed(FocusKeys) /\ Reaches(a11yEvent')) => FocusMoved
     /\ (KeyPressed(FocusKeys) /\ ~Reaches(a11yEvent')) =>
          (a11yCalls' = << >> /\ UNCHANGED << currentFocusIndex, isKeyboardNavActive >>)]_vars

(* Tab on the last node wrapped to the first *)
C37_Witness ==
  /\ a11yEvent = [key |-> "Tab", shiftKey |-> FALSE, target |-> "canvas"]
  /\ currentFocusIndex = 0
  /\ a11yCalls = << << "onNodeFocus", 0 >> >>

Activates == \E i \in 1..Len(a11yCalls') : a11yCalls'[i][1] = "onNodeActivate"

(* C38 as stated: Enter or Space calls onNodeActivate(currentFocusIndex) only while
   keyboard navigation is active; it becomes active only at a focus key (Tab,
   Shift+Tab, Home, End) and every Escape ends it, leaving currentFocusIndex as it
   was. *)
C38_ActivateOnlyWhileNavigating ==
  [][/\ Activates => /\ KeyPressed({"Enter", " "})
                     /\ isKeyboardNavActive
                     /\ a11yCalls' = << << "onNodeActivate", currentFocusIndex >> >>
     /\ (~isKeyboardNavActive /\ isKeyboardNavActive') => KeyPressed(FocusKeys)
     /\ KeyPressed({"Escape"}) =>
          (~isKeyboardNavActive' /\ currentFocusIndex' = currentFocusIndex)]_vars

(* C38 amended: an Escape ends keyboard navigation unless it is typed in a text
   input, where it is skipped. *)
C38_ActivateOnlyUntilEscapeReaches ==
  [][/\ Activates => /\ KeyPressed({"Enter", " "})
                     /\ isKeyboardNavActive
                     /\ a11yCalls' = << << "onNodeActivate", currentFocusIndex >> >>
     /\ (~isKeyboardNavActive /\ isKeyboardNavActive') =>
          (KeyPressed(FocusKeys) /\ Reaches(a11yEvent'))
     /\ KeyPressed({"Escape"}) =>
          /\ currentFocusIndex' = currentFocusIndex
          /\ isKeyboardNavActive' = (isKeyboardNavActive /\ ~Reaches(a11yEvent'))]_vars

(* Enter activated the last node *)
C38_Witness ==
  /\ a11yEvent.key = "Enter"
  /\ a11yCalls = << << "onNodeActivate", NodeCount - 1 >> >>

(* Escape ended keyboard navigation on a node other than the first *)
EscapeEndedNavigation ==
  /\ a11yEvent.key = "Escape"
  /\ ~isKeyboardNavActive
  /\ currentFocusIndex # 0

(* C39: after any sequence of addToQueue, start and reset calls, loadedItems never
   exceeds totalItems, every progress value reported to onProgress or returned by
   getProgress is within 0..100 percent, and isComplete() is true exactly when
   every queued item has been loaded. *)
C39_LoaderCountsStayInRange ==
  /\ loadedItems <= totalItems
  /\ GetProgress \in 0..(Percent * Percent)
  /\ \A i \in 1..Len(reported) : reported[i][2] \in 0..(Percent * Percent)
  /\ IsComplete <=> \A k \in 1..Len(loadQueue) : loadQueue[k].loaded

====
